---- MODULE Spec2Model ----
(***************************************************************************)
(* A model of the comment segmentation / date grounding / tag suggestion   *)
(* core of NCRI_Timelines:                                                 *)
(*   src/comment_segmenter.py  CommentSegmenter                            *)
(*   src/date_extraction.py    DateExtractor                               *)
(*   src/tag_suggester.py      TagSuggester                                *)
(*                                                                         *)
(* Texts are sequences of one-character strings.  Offsets are Python's     *)
(* 0-based offsets, so text[a:b] is SubSeq(text, a + 1, b).  A datetime is *)
(* a number of half days (tick 2*d is midnight of day d, tick 2*d + 1 is   *)
(* noon of day d), which keeps the difference between "the same day" and   *)
(* "not later than" that the comparisons of validate_date depend on.       *)
(*                                                                         *)
(* dateparser and spaCy are libraries outside the repository.  What they   *)
(* answer for a text is a nondeterministic choice, made once per text and  *)
(* remembered (variable lib), so that the libraries are functions of the   *)
(* text but otherwise arbitrary.                                           *)
(***************************************************************************)
EXTENDS Integers, Sequences, FiniteSets, TLC

VARIABLES
    text,        \* the comment text handed to extract_dates_and_segments
    sentEnds,    \* end_char of every sentence of doc.sents (spaCy)
    asana_date,  \* the reference date argument: None or a date string
    nlp,         \* whether the module-level spaCy model was loaded
    lib,         \* what dateparser / spaCy NER answered, per text asked
    pc,          \* position inside extract_dates_and_segments
    segments,    \* the working list of merge_segments_without_dates
    initial,     \* initial_segments: what create_initial_segments returned,
                 \* whose dicts the marking loop then flags in place
    iteration,   \* the merge loop's counter
    result,      \* the list extract_dates_and_segments returned
    lost,        \* history: startIndex of every segment whose date flag a
                 \* merge pass turned from true to false
    vectorizer,       \* TagSuggester.vectorizer: its fitted vocabulary, or None
    segment_vectors,  \* TagSuggester.segment_vectors
    segment_tags,     \* TagSuggester.segment_tags
    trained_segments, \* TagSuggester.trained_segments
    trainings,        \* history: how the train_on_tagged_segments calls ended
    last_examples,    \* history: the list the last training call was given
    suggested,        \* what the last suggest_tags call was given and returned
    disk,        \* the JSON files under /app/server_files, per file name
    req,         \* the page requests in progress, per server thread
    started,     \* how many page requests have been started
    env,         \* what the environment does: whether requests overlap, how
                 \* many file operations can still fail, how many requests
                 \* arrive
    ever,        \* history: every (position, entry) that training_data.json
                 \* has held when it was valid JSON
    recorded,    \* history: the story gids save_training_example recorded
                 \* since the last clear_processed
    last_writer, \* history: the thread whose save_json last wrote each file
    succeeded,   \* history: the save_tagged_comment requests that were answered
                 \* with success
    validation   \* a validate_date call: its arguments and what it returned

segmenter == <<text, sentEnds, asana_date, nlp, lib, pc, segments, initial,
               iteration, result, lost>>

suggester == <<vectorizer, segment_vectors, segment_tags, trained_segments,
               trainings, last_examples, suggested>>

pages == <<disk, req, started, env, ever, recorded, last_writer, succeeded>>

\* calls of single functions of DateExtractor
calls == <<validation>>

vars == <<segmenter, suggester, pages, calls>>

\* Python's None for an optional datetime: <<>>, and <<tick>> for a value
None == <<>>

\* Python's None for the asana_date argument
NoDate == [form |-> "None", day |-> 0]

(***************************************************************************)
(* Bounds of the model.                                                    *)
(***************************************************************************)
\* the input text is a concatenation of at most MaxPieces pieces
MaxPieces == 3

(***************************************************************************)
(* Characters and texts.                                                   *)
(***************************************************************************)
\* what Python's str.strip() and the regular expression \s take as blank
Whitespace == {" ", "\n"}

\* the pieces input texts are built from
Pieces == { <<"5", "/", "1">>, <<"a", "b">>, <<" ">>, <<":">>, <<"\n">> }

RECURSIVE Flatten(_)
Flatten(ps) == IF ps = <<>> THEN <<>> ELSE Head(ps) \o Flatten(Tail(ps))

RECURSIVE SeqsUpTo(_, _)
SeqsUpTo(S, n) ==
    IF n = 0 THEN { <<>> }
    ELSE LET shorter == SeqsUpTo(S, n - 1)
         IN  shorter \cup { <<x>> \o s : x \in S, s \in { t \in shorter : Len(t) = n - 1 } }

\* text[a:b] of Python, for 0 <= a <= b <= len(text)
Slice(t, a, b) == SubSeq(t, a + 1, b)

RECURSIVE LStrip(_)
LStrip(t) == IF t # <<>> /\ Head(t) \in Whitespace THEN LStrip(Tail(t)) ELSE t

RECURSIVE RStrip(_)
RStrip(t) ==
    IF t # <<>> /\ t[Len(t)] \in Whitespace THEN RStrip(SubSeq(t, 1, Len(t) - 1)) ELSE t

\* str.strip()
Strip(t) == RStrip(LStrip(t))

\* the text with every whitespace character deleted
RECURSIVE NoWhitespace(_)
NoWhitespace(t) ==
    IF t = <<>> THEN <<>>
    ELSE IF Head(t) \in Whitespace THEN NoWhitespace(Tail(t))
    ELSE <<Head(t)>> \o NoWhitespace(Tail(t))

\* sorted(list(S)) for a set of integers
RECURSIVE SortedSeq(_)
SortedSeq(S) ==
    IF S = {} THEN <<>>
    ELSE LET m == CHOOSE x \in S : \A y \in S : x <= y
         IN  <<m>> \o SortedSeq(S \ {m})

(***************************************************************************)
(* CommentSegmenter.create_initial_segments                                *)
(***************************************************************************)
\* re.compile(r':\s').finditer(text): match.end() of every match
ColonBoundaries(t) ==
    { i + 1 : i \in { j \in 1..(Len(t) - 1) : t[j] = ":" /\ t[j + 1] \in Whitespace } }

\* i + 1 for every i with text[i] == '\n'
NewlineBoundaries(t) == { i \in 1..Len(t) : t[i] = "\n" }

\* sent.end_char of every sentence that ends before the end of the text
SentenceBoundaries(t, ends) == { e \in ends : e < Len(t) }

\* a variant of NewSegment whose endIndex is one past the cut
NewSegment_EndPastCut(t, a, b) ==
    [text |-> Strip(Slice(t, a, b)), startIndex |-> a, endIndex |-> b + 1,
     has_date_or_time |-> FALSE]

NewSegment(t, a, b) ==
    [text |-> Strip(Slice(t, a, b)), startIndex |-> a, endIndex |-> b,
     has_date_or_time |-> FALSE]

\* the loop over sorted_boundaries; returns the segments and last_pos
RECURSIVE CutAtBoundaries(_, _, _, _)
CutAtBoundaries(t, bs, last_pos, segs) ==
    IF bs = <<>> THEN [segs |-> segs, last_pos |-> last_pos]
    ELSE LET boundary == Head(bs)
         IN  IF boundary > last_pos
             THEN CutAtBoundaries(t, Tail(bs), boundary,
                      IF Strip(Slice(t, last_pos, boundary)) # <<>>
                      THEN Append(segs, NewSegment(t, last_pos, boundary))
                      ELSE segs)
             ELSE CutAtBoundaries(t, Tail(bs), last_pos, segs)

\* a variant of WithFinalSegment that forgets the text after the last boundary
WithFinalSegment_Forgotten(t, cut) == cut.segs

\* the final segment, text[last_pos:]
WithFinalSegment(t, cut) ==
    IF cut.last_pos < Len(t) /\ Strip(Slice(t, cut.last_pos, Len(t))) # <<>>
    THEN Append(cut.segs, NewSegment(t, cut.last_pos, Len(t)))
    ELSE cut.segs

\* a variant of WholeTextIfEmpty without the whole-text segment
WholeTextIfEmpty_Nothing(t, segs) == segs

\* "If no segments created, treat entire text as one segment"
WholeTextIfEmpty(t, segs) ==
    IF segs = <<>>
    THEN << [text |-> t, startIndex |-> 0, endIndex |-> Len(t),
             has_date_or_time |-> FALSE] >>
    ELSE segs

create_initial_segments(t, ends) ==
    LET boundaries == ColonBoundaries(t) \cup SentenceBoundaries(t, ends)
                          \cup NewlineBoundaries(t)
        cut == CutAtBoundaries(t, SortedSeq(boundaries), 0, <<>>)
    IN  WholeTextIfEmpty(t, WithFinalSegment(t, cut))

(***************************************************************************)
(* Regular expression helpers for the patterns of DateExtractor.           *)
(***************************************************************************)
Digits == {"0", "1", "2", "3", "4", "5", "6", "7", "8", "9"}

UpperCase == <<"A", "B", "C", "D", "E", "F", "G", "H", "I", "J", "K", "L", "M",
               "N", "O", "P", "Q", "R", "S", "T", "U", "V", "W", "X", "Y", "Z">>

LowerCase == <<"a", "b", "c", "d", "e", "f", "g", "h", "i", "j", "k", "l", "m",
               "n", "o", "p", "q", "r", "s", "t", "u", "v", "w", "x", "y", "z">>

\* \w of the regular expressions
WordChars == Digits \cup {UpperCase[i] : i \in 1..26} \cup {LowerCase[i] : i \in 1..26}
                 \cup {"_"}

LowerChar(c) ==
    IF \E i \in 1..26 : UpperCase[i] = c
    THEN LowerCase[CHOOSE i \in 1..26 : UpperCase[i] = c]
    ELSE c

\* str.lower()
Lower(t) == [i \in 1..Len(t) |-> LowerChar(t[i])]

\* whether w occurs in t starting at (1-based) position i
At(t, i, w) == i >= 1 /\ i + Len(w) - 1 <= Len(t) /\ SubSeq(t, i, i + Len(w) - 1) = w

\* Python's  w in t
Contains(t, w) == \E i \in 1..Len(t) : At(t, i, w)

\* \b just before position i (between t[i-1] and t[i]), for i in 1..Len(t)+1
WordBoundary(t, i) ==
    LET before == i > 1 /\ t[i - 1] \in WordChars
        after  == i <= Len(t) /\ t[i] \in WordChars
    IN  before # after

\* the position after \s* (greedy) from position i
RECURSIVE SkipSpaces(_, _)
SkipSpaces(t, i) ==
    IF i <= Len(t) /\ t[i] \in Whitespace THEN SkipSpaces(t, i + 1) ELSE i

\* the position after \d* (greedy) from position i
RECURSIVE SkipDigits(_, _)
SkipDigits(t, i) ==
    IF i <= Len(t) /\ t[i] \in Digits THEN SkipDigits(t, i + 1) ELSE i

\* \bw\b somewhere in t
HasWord(t, w) ==
    \E i \in 1..Len(t) : At(t, i, w) /\ WordBoundary(t, i) /\ WordBoundary(t, i + Len(w))

\* \bw\s*(alt1|alt2|...)\b somewhere in t
HasWordThen(t, w, alts) ==
    \E i \in 1..Len(t) :
        /\ WordBoundary(t, i) /\ At(t, i, w)
        /\ \E j \in (i + Len(w))..SkipSpaces(t, i + Len(w)) : \E a \in alts :
               At(t, j, a) /\ WordBoundary(t, j + Len(a))

W_today     == <<"t", "o", "d", "a", "y">>
W_yesterday == <<"y", "e", "s", "t", "e", "r", "d", "a", "y">>
W_ago       == <<"a", "g", "o">>
W_last      == <<"l", "a", "s", "t">>
W_this      == <<"t", "h", "i", "s">>
W_earlier   == <<"e", "a", "r", "l", "i", "e", "r">>
W_previously == <<"p", "r", "e", "v", "i", "o", "u", "s", "l", "y">>
W_day       == <<"d", "a", "y">>
W_week      == <<"w", "e", "e", "k">>
W_month     == <<"m", "o", "n", "t", "h">>
W_year      == <<"y", "e", "a", "r">>
W_morning   == <<"m", "o", "r", "n", "i", "n", "g">>
W_afternoon == <<"a", "f", "t", "e", "r", "n", "o", "o", "n">>
W_evening   == <<"e", "v", "e", "n", "i", "n", "g">>

\* \b\d+\s*(day|week|month|year)s?\s*ago\b somewhere in t
HasNUnitsAgo(t) ==
    \E i \in 1..Len(t) :
        /\ WordBoundary(t, i) /\ t[i] \in Digits
        /\ \E d \in (i + 1)..SkipDigits(t, i) :
           \E j \in d..SkipSpaces(t, d) :
           \E u \in {W_day, W_week, W_month, W_year} :
             /\ At(t, j, u)
             /\ \E k \in {j + Len(u)} \cup
                         (IF At(t, j + Len(u), <<"s">>) THEN {j + Len(u) + 1} ELSE {}) :
                \E m \in k..SkipSpaces(t, k) :
                    At(t, m, W_ago) /\ WordBoundary(t, m + Len(W_ago))

\* self.time_patterns, searched in the lower-cased text
MatchesTimePattern(lowered) ==
    \/ HasWord(lowered, W_today)
    \/ HasWord(lowered, W_yesterday)
    \/ HasNUnitsAgo(lowered)
    \/ HasWordThen(lowered, W_last, {W_week, W_month, W_year})
    \/ HasWordThen(lowered, W_this, {W_morning, W_afternoon, W_evening})
    \/ HasWord(lowered, W_earlier)
    \/ HasWord(lowered, W_previously)
(***************************************************************************)
(* DateExtractor.preprocess_text_for_dates                                 *)
(***************************************************************************)
DateSeparators == {"/", "-", "."}

AllDigits(t, i, n) == i + n - 1 <= Len(t) /\ \A k \in i..(i + n - 1) : t[k] \in Digits

\* the positions just after a match of \d{1,2}[/\-\.]\d{1,2}[/\-\.]\d{2,4}
\* that starts at position i
DateTokenEnds(t, i) ==
    IF i > Len(t) \/ t[i] \notin Digits THEN {}
    ELSE
    { e \in (i + 6)..(Len(t) + 1) :
        \E a \in 1..2, b \in 1..2, c \in 2..4 :
            /\ e = i + a + 1 + b + 1 + c
            /\ AllDigits(t, i, a)
            /\ i + a <= Len(t) /\ t[i + a] \in DateSeparators
            /\ AllDigits(t, i + a + 1, b)
            /\ i + a + 1 + b <= Len(t) /\ t[i + a + 1 + b] \in DateSeparators
            /\ AllDigits(t, i + a + 1 + b + 1, c) }

\* date_attached_pattern at position i: the date followed by one [^\s\d]
AttachedAfterEnds(t, i) ==
    { e \in DateTokenEnds(t, i) : e <= Len(t) /\ t[e] \notin (Whitespace \cup Digits) }

\* date_attached_pattern.sub(r'\1 \2', text), scanning from position i
RECURSIVE SpaceAfterDates(_, _)
SpaceAfterDates(t, i) ==
    IF i > Len(t) THEN <<>>
    ELSE IF AttachedAfterEnds(t, i) # {}
         THEN LET e == CHOOSE x \in AttachedAfterEnds(t, i) :
                           \A y \in AttachedAfterEnds(t, i) : y <= x
              IN  SubSeq(t, i, e - 1) \o <<" ", t[e]>> \o SpaceAfterDates(t, e + 1)
         ELSE <<t[i]>> \o SpaceAfterDates(t, i + 1)

\* reverse_pattern.sub(r'\1 \2', processed), scanning from position i
RECURSIVE SpaceBeforeDates(_, _)
SpaceBeforeDates(t, i) ==
    IF i > Len(t) THEN <<>>
    ELSE IF t[i] \notin (Whitespace \cup Digits) /\ DateTokenEnds(t, i + 1) # {}
         THEN LET e == CHOOSE x \in DateTokenEnds(t, i + 1) :
                           \A y \in DateTokenEnds(t, i + 1) : y <= x
              IN  <<t[i], " ">> \o SubSeq(t, i + 1, e - 1) \o SpaceBeforeDates(t, e)
         ELSE <<t[i]>> \o SpaceBeforeDates(t, i + 1)

preprocess_text_for_dates(t) == SpaceBeforeDates(SpaceAfterDates(t, 1), 1)

(***************************************************************************)
(* DateExtractor.is_ordinal_context                                        *)
(***************************************************************************)
OrdinalSuffixes == { <<"s", "t">>, <<"n", "d">>, <<"r", "d">>, <<"t", "h">> }

\* the positions just after a match of \d+(st|nd|rd|th) that starts at i,
\* in a lower-cased text
OrdinalEnds(t, i) ==
    { d + 2 : d \in { x \in (i + 1)..SkipDigits(t, i) :
                        \E sfx \in OrdinalSuffixes : At(t, x, sfx) } }

\* ordinal_pattern.match(match_text): \b(\d{1,2})(st|nd|rd|th)\b at its start
OrdinalPatternMatch(m) ==
    /\ m # <<>> /\ m[1] \in Digits
    /\ \E e \in OrdinalEnds(Lower(m), 1) : e <= 5 /\ WordBoundary(m, 1) /\ WordBoundary(m, e)

W_and == <<"a", "n", "d">>
W_or  == <<"o", "r">>

NonDateNouns ==
    { <<"e", "m", "a", "i", "l">>, <<"m", "e", "s", "s", "a", "g", "e">>,
      <<"a", "t", "t", "e", "m", "p", "t">>, <<"t", "r", "y">>,
      <<"t", "i", "m", "e">>, <<"r", "o", "u", "n", "d">>,
      <<"s", "t", "e", "p">>, <<"p", "h", "a", "s", "e">> }

SpelledOrdinals ==
    { <<"f", "i", "r", "s", "t">>, <<"s", "e", "c", "o", "n", "d">>,
      <<"t", "h", "i", "r", "d">>, <<"f", "o", "u", "r", "t", "h">>,
      <<"f", "i", "f", "t", "h">> }

\* the positions after one or more whitespace characters from position i
SpacesEnds(t, i) == (i + 1)..SkipSpaces(t, i)

\* \b(and|or|,)\s*\d+(st|nd|rd|th)\b
NonDateContext1(l) ==
    \E i \in 1..Len(l) : \E w \in {W_and, W_or, <<",">>} :
        /\ WordBoundary(l, i) /\ At(l, i, w)
        /\ \E j \in (i + Len(w))..SkipSpaces(l, i + Len(w)) :
           \E e \in OrdinalEnds(l, j) : WordBoundary(l, e)

\* \d+(st|nd|rd|th)\s+(email|message|attempt|try|time|round|step|phase)
NonDateContext2(l) ==
    \E i \in 1..Len(l) : \E e \in OrdinalEnds(l, i) :
        \E j \in SpacesEnds(l, e) : \E w \in NonDateNouns : At(l, j, w)

\* (first|second|third|fourth|fifth)\s+(and|or)\s+\d+(st|nd|rd|th)
NonDateContext3(l) ==
    \E i \in 1..Len(l) : \E f \in SpelledOrdinals :
        /\ At(l, i, f)
        /\ \E j \in SpacesEnds(l, i + Len(f)) : \E w \in {W_and, W_or} :
             /\ At(l, j, w)
             /\ \E k \in SpacesEnds(l, j + Len(w)) : OrdinalEnds(l, k) # {}

is_ordinal_context(t, match_text) ==
    /\ OrdinalPatternMatch(match_text)
    /\ \E l \in {Lower(t)} : NonDateContext1(l) \/ NonDateContext2(l) \/ NonDateContext3(l)

\* \b\d+(st|nd|rd|th)\s+(and|or|email|message|attempt) of the last resort
LooksLikeOrdinals(t) ==
    \E l \in {Lower(t)} :
        \E i \in 1..Len(l) : \E e \in OrdinalEnds(l, i) :
            /\ WordBoundary(l, i)
            /\ \E j \in SpacesEnds(l, e) :
               \E w \in {W_and, W_or, <<"e", "m", "a", "i", "l">>,
                         <<"m", "e", "s", "s", "a", "g", "e">>,
                         <<"a", "t", "t", "e", "m", "p", "t">>} : At(l, j, w)
(***************************************************************************)
(* Dates.  A date string is a record: form "ymd" is YYYY-MM-DD.            *)
(***************************************************************************)
\* datetime.strftime('%Y-%m-%d')
strftime(tick) == [form |-> "ymd", day |-> tick \div 2]

\* timedelta(days=n), in ticks
timedelta(n) == 2 * n

\* the reference dates a caller hands in: none, or a well-formed YYYY-MM-DD
AsanaDates == { NoDate, [form |-> "ymd", day |-> 20000] }

\* datetime.now(): the request is processed at noon, some weeks after the comment
Now == 2 * 20030 + 1

\* the strings a form can carry as asana_date: also a full timestamp, as
\* Asana's created_at, and a string that is no date
RawAsanaDates ==
    AsanaDates \cup { [form |-> "timestamp", day |-> 20000], [form |-> "no date", day |-> 0] }

\* dateparser.parse of a well-formed YYYY-MM-DD string: midnight of that day;
\* of a timestamp: its moment, here noon; of a string that is no date: None
parse_reference_date(asana) ==
    IF asana = NoDate THEN None
    ELSE IF asana.form = "ymd" THEN << 2 * asana.day >>
    ELSE IF asana.form = "timestamp" THEN << 2 * asana.day + 1 >>
    ELSE None

\* parse_reference_date(asana_date) or datetime.now()
ReferenceDate(asana) ==
    IF parse_reference_date(asana) # None THEN parse_reference_date(asana)[1] ELSE Now

\* a variant of validate_date that accepts dates after the reference date
validate_date_FutureAccepted(date_value, reference_date) ==
    IF date_value < reference_date - timedelta(365 * 10) THEN FALSE
    ELSE TRUE

validate_date(date_value, reference_date) ==
    IF date_value > reference_date THEN FALSE
    ELSE IF date_value < reference_date - timedelta(365 * 10) THEN FALSE
    ELSE TRUE

(***************************************************************************)
(* The calendar of datetime: a day is counted from 1970-01-01, a tick is   *)
(* half a day.                                                             *)
(***************************************************************************)
IsLeap(y) == (y % 4 = 0 /\ y % 100 # 0) \/ y % 400 = 0

DaysInMonth(y, m) ==
    IF m = 2 THEN (IF IsLeap(y) THEN 29 ELSE 28)
    ELSE IF m \in {4, 6, 9, 11} THEN 30 ELSE 31

RECURSIVE DaysBeforeYear(_)
DaysBeforeYear(y) ==
    IF y <= 1970 THEN 0
    ELSE DaysBeforeYear(y - 1) + (IF IsLeap(y - 1) THEN 366 ELSE 365)

RECURSIVE DaysBeforeMonth(_, _)
DaysBeforeMonth(y, m) ==
    IF m <= 1 THEN 0 ELSE DaysBeforeMonth(y, m - 1) + DaysInMonth(y, m - 1)

\* the day count of the date y-m-d
DayNumber(ymd) == DaysBeforeYear(ymd[1]) + DaysBeforeMonth(ymd[1], ymd[2]) + ymd[3] - 1

\* the same day of the year n calendar years earlier (the 28th for a 29th of
\* February that the earlier year lacks)
YearsBefore(ymd, n) ==
    << ymd[1] - n, ymd[2],
       IF ymd[3] > DaysInMonth(ymd[1] - n, ymd[2]) THEN DaysInMonth(ymd[1] - n, ymd[2])
       ELSE ymd[3] >>

\* the day a tick lies on
DayOf(tick) == tick \div 2

\* no function was called on its own
NoCalls == validation = << >>

\* the reference dates of the validate_date calls
ReferenceDays == { <<2024, 10, 4>>, <<2024, 2, 29>>, <<2023, 3, 1>>, <<2021, 1, 1>> }

\* the distances, in ticks, from the reference date to the validated dates:
\* around the reference date and around ten years before it
DateDistances ==
    {2, 1, 0, -1, -2} \cup { -(2 * n) : n \in 3648..3654 } \cup {-(2 * 3650) - 1}

(***************************************************************************)
(* What the libraries answer for one (preprocessed) text:                  *)
(*   sd     search_dates: the (date_string, date_value) pairs, in order    *)
(*   ents   doc.ents of spaCy with dateparser.parse(ent.text)              *)
(*   whole  dateparser.parse of the whole text                             *)
(* Date values are ticks relative to the reference date (RELATIVE_BASE),   *)
(* as None or <<offset>>.  A call that raises is caught by the code and is *)
(* the answer with nothing found.                                          *)
(***************************************************************************)
NoAnswer == [sd |-> <<>>, ents |-> <<>>, whole |-> None]

\* a search_dates match: date_string is the whole text ("text") or the first
\* ordinal number of the text ("ordinal")
Match(kind, off) == [str |-> kind, off |-> off]

\* the first NN(st|nd|rd|th) of t
FirstOrdinal(t) ==
    LET l == Lower(t)
        starts == { i \in 1..Len(t) : OrdinalEnds(l, i) # {} }
        i == CHOOSE x \in starts : \A y \in starts : x <= y
        e == CHOOSE x \in OrdinalEnds(l, i) : \A y \in OrdinalEnds(l, i) : y <= x
    IN  IF starts = {} THEN t ELSE SubSeq(t, i, e - 1)

\* the date_string / ent.text of a match in the text t
MatchText(t, m) == IF m.str = "ordinal" THEN FirstOrdinal(t) ELSE t

\* The answers the model lets the libraries give for a text they are asked
\* about: nothing; a date the day before the reference date; two dates that
\* validate_date must refuse (noon of the next day, and ten years and a day
\* back); a TIME entity two days before; a date only the whole-text parse
\* finds; a DATE entity four days before in a text whose whole-text parse
\* finds another date.
LibAnswers ==
    { NoAnswer,
      [NoAnswer EXCEPT !.sd = << Match("text", -2) >>],
      [NoAnswer EXCEPT !.sd = << Match("text", 3), Match("text", -(2 * 3651)) >>],
      [NoAnswer EXCEPT !.ents = << [label |-> "TIME", str |-> "text", off |-> <<-4>>] >>],
      [NoAnswer EXCEPT !.whole = <<-6>>],
      [NoAnswer EXCEPT !.ents = << [label |-> "DATE", str |-> "text", off |-> <<-8>>] >>,
                       !.whole = <<-6>>] }

\* The libraries find no date in a text without a digit: the words of the
\* model's texts, "ab", ":" and blanks, name no date.
LibraryCanAnswer(t) == \E i \in 1..Len(t) : t[i] \in Digits

\* the first (date_string, date_value) that is no ordinal and validates
RECURSIVE FirstValidMatch(_, _, _)
FirstValidMatch(processed, ref, sd) ==
    IF sd = <<>> THEN None
    ELSE IF is_ordinal_context(processed, MatchText(processed, Head(sd)))
         THEN FirstValidMatch(processed, ref, Tail(sd))
    ELSE IF validate_date(ref + Head(sd).off, ref) THEN << ref + Head(sd).off >>
    ELSE FirstValidMatch(processed, ref, Tail(sd))

\* the first entity with a label of `labels` that is no ordinal, parses and validates
RECURSIVE FirstValidEntity(_, _, _, _)
FirstValidEntity(processed, ref, ents, labels) ==
    IF ents = <<>> THEN None
    ELSE IF Head(ents).label \notin labels
         THEN FirstValidEntity(processed, ref, Tail(ents), labels)
    ELSE IF is_ordinal_context(processed, MatchText(processed, Head(ents)))
         THEN FirstValidEntity(processed, ref, Tail(ents), labels)
    ELSE IF Head(ents).off # None /\ validate_date(ref + Head(ents).off[1], ref)
         THEN << ref + Head(ents).off[1] >>
    ELSE FirstValidEntity(processed, ref, Tail(ents), labels)

(***************************************************************************)
(* DateExtractor.has_date_or_time_reference                                *)
(***************************************************************************)
\* whether the call reaches search_dates at all
HasDateAsksLibrary(segment_text) ==
    /\ ~ (Len(segment_text) < 3)
    /\ \E l \in {Lower(preprocess_text_for_dates(segment_text))} : ~ MatchesTimePattern(l)

has_date_or_time_reference(segment_text, asana, nlpArg, ans) ==
    IF Len(segment_text) < 3 THEN FALSE
    ELSE \E processed \in {preprocess_text_for_dates(segment_text)} :
         \E segment_lower \in {Lower(processed)} :
         \E reference_date \in {ReferenceDate(asana)} :
            IF MatchesTimePattern(segment_lower) THEN TRUE
            ELSE IF FirstValidMatch(processed, reference_date, ans.sd) # None THEN TRUE
            ELSE IF /\ nlpArg
                    /\ FirstValidEntity(processed, reference_date, ans.ents,
                                        {"DATE", "TIME"}) # None
                 THEN TRUE
            ELSE FALSE

(***************************************************************************)
(* DateExtractor.extract_segment_date                                      *)
(***************************************************************************)
\* whether the call reaches search_dates at all
ExtractAsksLibrary(segment_text) ==
    \E l \in {Lower(preprocess_text_for_dates(segment_text))} :
        ~ Contains(l, W_today) /\ ~ Contains(l, W_yesterday)

\* "Default to asana date or today": the argument itself, as it was given
DefaultDate(asana) == IF asana # NoDate THEN asana ELSE strftime(Now)

\* a variant of ExtractFrom that searches for explicit dates before it looks
\* for the words today and yesterday
ExtractFrom_SearchFirst(processed, segment_lower, reference_date, asana, nlpArg, ans) ==
    LET bySearch == FirstValidMatch(processed, reference_date, ans.sd)
    IN  IF bySearch # None THEN strftime(bySearch[1])
        ELSE IF Contains(segment_lower, W_today) THEN strftime(reference_date)
        ELSE IF Contains(segment_lower, W_yesterday)
             THEN strftime(reference_date - timedelta(1))
        ELSE DefaultDate(asana)

\* the body of extract_segment_date, given processed_text, segment_lower and
\* reference_date
ExtractFrom(processed, segment_lower, reference_date, asana, nlpArg, ans) ==
    LET bySearch == FirstValidMatch(processed, reference_date, ans.sd)
        byEntity == IF nlpArg
                    THEN FirstValidEntity(processed, reference_date, ans.ents, {"DATE"})
                    ELSE None
        byWhole == IF ~ LooksLikeOrdinals(processed) /\ ans.whole # None
                      /\ validate_date(reference_date + ans.whole[1], reference_date)
                   THEN << reference_date + ans.whole[1] >> ELSE None
    IN  IF Contains(segment_lower, W_today) THEN strftime(reference_date)
        ELSE IF Contains(segment_lower, W_yesterday)
             THEN strftime(reference_date - timedelta(1))
        ELSE IF bySearch # None THEN strftime(bySearch[1])
        ELSE IF byEntity # None THEN strftime(byEntity[1])
        ELSE IF byWhole # None THEN strftime(byWhole[1])
        ELSE DefaultDate(asana)

extract_segment_date(segment_text, asana, nlpArg, ans) ==
    CHOOSE d \in { ExtractFrom(processed, Lower(processed), ReferenceDate(asana),
                               asana, nlpArg, ans) :
                   processed \in {preprocess_text_for_dates(segment_text)} } : TRUE

(***************************************************************************)
(* The libraries' answers, remembered per text.                            *)
(***************************************************************************)
AnswerOf(f, t) == IF t \in DOMAIN f THEN f[t] ELSE NoAnswer

\* every way the libraries can answer for the texts of `asked` that they were
\* not asked about before
NewAnswers(known, asked) ==
    [ { t \in asked : LibraryCanAnswer(preprocess_text_for_dates(t)) } \ DOMAIN known
        -> LibAnswers ]

(***************************************************************************)
(* CommentSegmenter.merge_segments_without_dates                           *)
(***************************************************************************)
max_iterations == 100

\* the first loop: mark which segments have dates/time references
MarkSegments(segs, asana, f) ==
    [i \in 1..Len(segs) |->
        [segs[i] EXCEPT !.has_date_or_time =
            has_date_or_time_reference(segs[i].text, asana, TRUE, AnswerOf(f, segs[i].text))]]

\* the merge of segments[i] into prev_segment, the last of new_segments
\* a variant of MergeIntoPrevious that puts the later text first
MergeIntoPrevious_Swapped(prev_segment, seg, asana, f) ==
    LET merged_text == seg.text \o <<" ">> \o prev_segment.text
    IN  [prev_segment EXCEPT
            !.text = merged_text,
            !.endIndex = seg.endIndex,
            !.has_date_or_time =
                has_date_or_time_reference(merged_text, asana, TRUE, AnswerOf(f, merged_text))]

\* a variant of MergeIntoPrevious that keeps the earlier endIndex
MergeIntoPrevious_EndKept(prev_segment, seg, asana, f) ==
    LET merged_text == prev_segment.text \o <<" ">> \o seg.text
    IN  [prev_segment EXCEPT
            !.text = merged_text,
            !.has_date_or_time =
                has_date_or_time_reference(merged_text, asana, TRUE, AnswerOf(f, merged_text))]

\* a variant of MergeIntoPrevious that joins the texts without a space
MergeIntoPrevious_NoSpace(prev_segment, seg, asana, f) ==
    LET merged_text == prev_segment.text \o seg.text
    IN  [prev_segment EXCEPT
            !.text = merged_text,
            !.endIndex = seg.endIndex,
            !.has_date_or_time =
                has_date_or_time_reference(merged_text, asana, TRUE, AnswerOf(f, merged_text))]

\* a variant of MergeIntoPrevious that leaves the date flag as it was
MergeIntoPrevious_FlagKept(prev_segment, seg, asana, f) ==
    LET merged_text == prev_segment.text \o <<" ">> \o seg.text
    IN  [prev_segment EXCEPT
            !.text = merged_text,
            !.endIndex = seg.endIndex]

MergeIntoPrevious(prev_segment, seg, asana, f) ==
    LET merged_text == prev_segment.text \o <<" ">> \o seg.text
    IN  [prev_segment EXCEPT
            !.text = merged_text,
            !.endIndex = seg.endIndex,
            !.has_date_or_time =
                has_date_or_time_reference(merged_text, asana, TRUE, AnswerOf(f, merged_text))]

\* the inner while loop, from index i (1-based); merged collects the indices
\* of new_segments that took a merge
RECURSIVE MergeScan(_, _, _, _, _, _)
MergeScan(segs, i, new_segments, merged, asana, f) ==
    IF i > Len(segs)
    THEN [segments |-> new_segments, merged_any |-> merged # {},
          asked |-> { new_segments[j].text : j \in merged }]
    ELSE IF i > 1 /\ ~ segs[i].has_date_or_time
         THEN MergeScan(segs, i + 1,
                  [new_segments EXCEPT ![Len(new_segments)] =
                      MergeIntoPrevious(new_segments[Len(new_segments)], segs[i], asana, f)],
                  merged \cup {Len(new_segments)}, asana, f)
         ELSE MergeScan(segs, i + 1, Append(new_segments, segs[i]), merged, asana, f)

\* One pass.  asked is the texts whose date flag the pass keeps: the flag of a
\* text that a further merge of the same pass replaces is overwritten unread,
\* so the libraries' answer for it is left open.
\* a variant of MergePass that merges nothing
MergePass_Idle(segs, asana, f) == [segments |-> segs, merged_any |-> FALSE, asked |-> {}]

\* a variant of MergePass that reports a merge and leaves the list as it was
MergePass_Stuck(segs, asana, f) == [segments |-> segs, merged_any |-> TRUE, asked |-> {}]

MergePass(segs, asana, f) == MergeScan(segs, 1, <<>>, {}, asana, f)

\* "Check if we're done"
\* a variant of MergeComplete that stops the loop before any merge
MergeComplete_AtOnce(segs) == Len(segs) >= 1

MergeComplete(segs) ==
    Cardinality({ i \in 1..Len(segs) : ~ segs[i].has_date_or_time }) = 0 \/ Len(segs) = 1

\* one entry of final_segments
FinalSegment(seg, asana, f) ==
    [text |-> seg.text,
     date |-> extract_segment_date(seg.text, asana, TRUE, AnswerOf(f, seg.text)),
     dateSource |-> IF seg.has_date_or_time THEN "extracted" ELSE "asana_timestamp",
     startIndex |-> seg.startIndex,
     endIndex |-> seg.endIndex]

\* "Format final segments for output"
FormatSegments(segs, asana, f) == [i \in 1..Len(segs) |-> FinalSegment(segs[i], asana, f)]

(***************************************************************************)
(* CommentSegmenter.simple_fallback_segmentation                           *)
(***************************************************************************)
\* a variant of simple_fallback_segmentation that always names the timestamp
simple_fallback_segmentation_AlwaysTimestamp(t, asana) ==
    << [text |-> t,
        date |-> IF asana # NoDate THEN asana ELSE strftime(Now),
        dateSource |-> "asana_timestamp",
        startIndex |-> 0,
        endIndex |-> Len(t)] >>

simple_fallback_segmentation(t, asana) ==
    << [text |-> t,
        date |-> IF asana # NoDate THEN asana ELSE strftime(Now),
        dateSource |-> IF asana # NoDate THEN "asana_timestamp" ELSE "default",
        startIndex |-> 0,
        endIndex |-> Len(t)] >>

(***************************************************************************)
(* TagSuggester (src/tag_suggester.py).                                    *)
(*                                                                         *)
(* scikit-learn is a library outside the repository.  A text is the set of *)
(* its tokens, or None where the caller passed something that is not a     *)
(* string.  The vectorizer's vocabulary is the set of tokens of the fitted *)
(* texts that are not English stop words (max_features = 100 cuts nothing  *)
(* off vocabularies this small), and a TF-IDF row is known by the set of   *)
(* vocabulary tokens it weighs.  A cosine similarity is a number of        *)
(* thousandths, chosen nondeterministically among the values the rows      *)
(* allow: 0 exactly when the two rows share no token, 1000 exactly when    *)
(* they weigh the same tokens.                                             *)
(***************************************************************************)
\* the longest list of examples a training call is given
MaxExamples == 2

StopWords == {"the"}

Examples ==
    { [text |-> << {"w1"} >>,       tags |-> << "t1" >>],
      [text |-> << {"w1", "w2"} >>, tags |-> << "t1", "t2" >>],
      [text |-> << {"the"} >>,      tags |-> << "t2" >>],
      [text |-> None,               tags |-> << "t1" >>] }

Queries == { << {"w1"} >>, << {"w2", "the"} >>, None }

\* the lists a training call is given: up to MaxExamples different examples
ExampleLists ==
    { l \in SeqsUpTo(Examples, MaxExamples) :
        \A i, j \in 1..Len(l) : i # j => l[i] # l[j] }

TopKs == {-1, 0, 1, 2}

CosineValues == {0, 50, 51, 600, 1000}

\* TagSuggester.__init__
NewSuggester ==
    /\ vectorizer = None
    /\ segment_vectors = None
    /\ segment_tags = << >>
    /\ trained_segments = << >>
    /\ trainings = {}
    /\ last_examples = None
    /\ suggested = None

\* TfidfVectorizer.fit_transform(texts): raises on a text that is not a
\* string and on an empty vocabulary
fit_transform(texts) ==
    LET failed == [raised |-> TRUE, vocabulary |-> {}, rows |-> << >>]
    IN  IF \E i \in 1..Len(texts) : texts[i] = None THEN failed
        ELSE LET vocabulary == UNION { texts[i][1] : i \in 1..Len(texts) } \ StopWords
             IN  IF vocabulary = {} THEN failed
                 ELSE [raised |-> FALSE, vocabulary |-> vocabulary,
                       rows |-> [i \in 1..Len(texts) |-> texts[i][1] \cap vocabulary]]

\* a variant of FitInTry in which a failing fit leaves the index built from
\* the texts it could use
FitInTry_PartialIndex(old_vectorizer, old_vectors, texts) ==
    LET usable == UNION { texts[i][1] : i \in { j \in 1..Len(texts) : texts[j] # None } }
        vocabulary == usable \ StopWords
    IN  [vectorizer |-> << vocabulary >>,
         segment_vectors |-> << [i \in 1..Len(texts) |->
                                    IF texts[i] = None THEN {}
                                    ELSE texts[i][1] \cap vocabulary] >>]

\* the try block of train_on_tagged_segments: the assignment happens only
\* when fit_transform returns; the exception is logged
FitInTry(old_vectorizer, old_vectors, texts) ==
    LET fit == fit_transform(texts)
    IN  IF fit.raised
        THEN [vectorizer |-> old_vectorizer, segment_vectors |-> old_vectors]
        ELSE [vectorizer |-> << fit.vocabulary >>, segment_vectors |-> << fit.rows >>]

TextsOf(examples) == [i \in 1..Len(examples) |-> examples[i].text]

TagsOf(examples) == [i \in 1..Len(examples) |-> examples[i].tags]

\* "if not tagged_segments: return"
NothingToTrainOn(tagged_segments) == tagged_segments = << >>

\* vectorizer.transform([segment_text]) raises when the vectorizer is not
\* fitted and when the text is not a string
TransformRaises(vec, segment_text) == vec = None \/ segment_text = None

\* cosine_similarity(segment_vector, self.segment_vectors)[0]
Cosines(query, rows) ==
    { c \in [1..Len(rows) -> CosineValues] :
        \A i \in 1..Len(rows) :
            /\ (c[i] = 0) <=> (query \cap rows[i] = {})
            /\ (c[i] = 1000) <=> (query = rows[i] /\ query # {}) }

\* np.argsort(similarities): the indices in ascending order of similarity,
\* ties in any order
ArgSorts(similarities) ==
    LET n == Len(similarities)
    IN  { p \in [1..n -> 1..n] :
            /\ \A i, j \in 1..n : i # j => p[i] # p[j]
            /\ \A i \in 1..(n - 1) : similarities[p[i]] <= similarities[p[i + 1]] }

\* a variant of SliceTo that cuts nothing off
SliceTo_Whole(seq, stop) == seq

\* seq[start:] and seq[:stop] of Python
SliceFrom(seq, start) ==
    LET n == Len(seq)
        from == IF start >= 0 THEN (IF start < n THEN start ELSE n)
                ELSE (IF n + start > 0 THEN n + start ELSE 0)
    IN  SubSeq(seq, from + 1, n)

SliceTo(seq, stop) ==
    LET n == Len(seq)
        to == IF stop >= 0 THEN (IF stop < n THEN stop ELSE n)
              ELSE (IF n + stop > 0 THEN n + stop ELSE 0)
    IN  SubSeq(seq, 1, to)

Reverse(seq) == [i \in 1..Len(seq) |-> seq[Len(seq) + 1 - i]]

\* np.argsort(similarities)[-top_k:][::-1]
TopIndices(order, top_k) == Reverse(SliceFrom(order, - top_k))

\* tag_scores[tag] += similarity, on a dict that keeps insertion order
AddScore(tag_scores, tag, similarity) ==
    IF \E j \in 1..Len(tag_scores) : tag_scores[j].tag = tag
    THEN [j \in 1..Len(tag_scores) |->
            IF tag_scores[j].tag = tag
            THEN [tag_scores[j] EXCEPT !.score = @ + similarity]
            ELSE tag_scores[j]]
    ELSE Append(tag_scores, [tag |-> tag, score |-> similarity])

RECURSIVE AddTags(_, _, _)
AddTags(tag_scores, tags, similarity) ==
    IF tags = << >> THEN tag_scores
    ELSE AddTags(AddScore(tag_scores, Head(tags), similarity), Tail(tags), similarity)

\* a variant of Aggregate that lets a similarity of exactly 0.05 count
RECURSIVE Aggregate_AtThreshold(_, _, _, _)
Aggregate_AtThreshold(top_indices, similarities, tags_list, tag_scores) ==
    IF top_indices = << >> THEN [raised |-> FALSE, tag_scores |-> tag_scores]
    ELSE LET idx == Head(top_indices)
         IN  IF similarities[idx] >= 50
             THEN IF idx > Len(tags_list)
                  THEN [raised |-> TRUE, tag_scores |-> tag_scores]
                  ELSE Aggregate_AtThreshold(Tail(top_indices), similarities, tags_list,
                                 AddTags(tag_scores, tags_list[idx], similarities[idx]))
             ELSE Aggregate_AtThreshold(Tail(top_indices), similarities, tags_list, tag_scores)

\* the loop over top_indices; self.segment_tags[idx] raises IndexError when
\* the tag list is shorter than the index
RECURSIVE Aggregate(_, _, _, _)
Aggregate(top_indices, similarities, tags_list, tag_scores) ==
    IF top_indices = << >> THEN [raised |-> FALSE, tag_scores |-> tag_scores]
    ELSE LET idx == Head(top_indices)
         IN  IF similarities[idx] > 50
             THEN IF idx > Len(tags_list)
                  THEN [raised |-> TRUE, tag_scores |-> tag_scores]
                  ELSE Aggregate(Tail(top_indices), similarities, tags_list,
                                 AddTags(tag_scores, tags_list[idx], similarities[idx]))
             ELSE Aggregate(Tail(top_indices), similarities, tags_list, tag_scores)

\* sorted(tag_scores.items(), key=score, reverse=True): stable
RECURSIVE InsertByScore(_, _)
InsertByScore(sorted, item) ==
    IF sorted = << >> THEN << item >>
    ELSE IF Head(sorted).score >= item.score
         THEN << Head(sorted) >> \o InsertByScore(Tail(sorted), item)
         ELSE << item >> \o sorted

RECURSIVE SortedByScore(_)
SortedByScore(items) ==
    IF items = << >> THEN << >>
    ELSE InsertByScore(SortedByScore(SubSeq(items, 1, Len(items) - 1)), items[Len(items)])

MaxScore(tag_scores) ==
    CHOOSE m \in { tag_scores[j].score : j \in 1..Len(tag_scores) } :
        \A j \in 1..Len(tag_scores) : tag_scores[j].score <= m

\* the suggestions list; a confidence score / max_score is kept as a fraction
Suggestions(tag_scores) ==
    LET max_score == MaxScore(tag_scores)
        ranked == SortedByScore(tag_scores)
    IN  [j \in 1..Len(ranked) |->
            [tag |-> ranked[j].tag,
             confidence |-> [num |-> ranked[j].score, den |-> max_score],
             auto_select |-> 10 * ranked[j].score > 7 * max_score]]

\* "except Exception as e: logger.error(...)" and the final "return []"
LoggedAndEmpty(tag_scores) ==
    [returned |-> << >>, raised |-> FALSE, tag_scores |-> tag_scores]

\* "if self.segment_vectors is None or len(self.trained_segments) == 0"
NoTrainingData(vectors, trained) == vectors = None \/ Len(trained) = 0

suggest_tags(vec, vectors, tags_list, trained, segment_text, top_k, similarities, order) ==
    IF NoTrainingData(vectors, trained)
    THEN [returned |-> << >>, raised |-> FALSE, tag_scores |-> << >>]
    ELSE IF TransformRaises(vec, segment_text) THEN LoggedAndEmpty(<< >>)
    ELSE LET scored == Aggregate(TopIndices(order, top_k), similarities, tags_list, << >>)
         IN  IF scored.raised THEN LoggedAndEmpty(scored.tag_scores)
             ELSE IF scored.tag_scores # << >>
                  THEN [returned |-> SliceTo(Suggestions(scored.tag_scores), top_k),
                        raised |-> FALSE, tag_scores |-> scored.tag_scores]
                  ELSE [returned |-> << >>, raised |-> FALSE, tag_scores |-> << >>]

(***************************************************************************)
(* The JSON stores of CommentTagger (src/comment_tagger.py) and            *)
(* SegmentationTrainer (src/segmentation_trainer.py).                      *)
(*                                                                         *)
(* A file is a sequence of tokens: an opening bracket, one token per item  *)
(* of the collection, a closing bracket.  An item is a key and a value:    *)
(* for a list store the key names the entry, for a dict store the key is   *)
(* the dict key and the value the list of tagged segments kept under it.   *)
(* open(path, 'w') truncates the file; the buffered json.dump reaches the  *)
(* file when the with-block closes it, written from offset 0 over what the *)
(* file then holds.                                                        *)
(***************************************************************************)
TRAINING == "comment_tagger/training_data.json"

TAGGED == "comment_tagger/tagged_comments.json"

TAGDEFS == "comment_tagger/tag_definitions.json"

SEGTRAIN == "comment_tagger/segmentation_training.json"

TRAINER_LOG == "segmentation_trainer/segmentation_training.json"

PROCESSED == "segmentation_trainer/processed_comments.json"

TaggerFiles == {TRAINING, TAGGED, TAGDEFS, SEGTRAIN}

TrainerFiles == {TRAINER_LOG, PROCESSED}

Files == TaggerFiles \cup TrainerFiles

\* the stores that hold a dict; the others hold a list
DictFiles == {TAGGED, TAGDEFS, PROCESSED}

Item(key, val) == [kind |-> "item", key |-> key, val |-> val]

Opening(file) == [kind |-> IF file \in DictFiles THEN "{" ELSE "[", key |-> "", val |-> << >>]

Closing(file) == [kind |-> IF file \in DictFiles THEN "}" ELSE "]", key |-> "", val |-> << >>]

\* json.dump(data, f)
Serialize(file, data) == << Opening(file) >> \o data \o << Closing(file) >>

NoFile == [exists |-> FALSE, bytes |-> << >>]

\* json.load(f) succeeds
ValidJson(file, bytes) ==
    /\ Len(bytes) >= 2
    /\ bytes[1] = Opening(file)
    /\ bytes[Len(bytes)] = Closing(file)
    /\ \A i \in 2..(Len(bytes) - 1) : bytes[i].kind = "item"

\* load_json(filename, default): the default is [] or {}, both without items
load_json(file, f) ==
    IF f.exists /\ ValidJson(file, f.bytes)
    THEN SubSeq(f.bytes, 2, Len(f.bytes) - 1)
    ELSE << >>

\* open(filepath, 'w')
Truncated == [exists |-> TRUE, bytes |-> << >>]

\* the file after the buffer was written from offset 0
Written(f, bytes) ==
    [exists |-> TRUE,
     bytes |-> bytes \o SubSeq(f.bytes, Len(bytes) + 1, Len(f.bytes))]

Keys(data) == { data[i].key : i \in 1..Len(data) }

\* an assignment that forgets the other keys
DictSet_Alone(data, key, val) == << Item(key, val) >>

\* d[key] = val on a dict that keeps insertion order
DictSet(data, key, val) ==
    IF key \in Keys(data)
    THEN [i \in 1..Len(data) |-> IF data[i].key = key THEN Item(key, val) ELSE data[i]]
    ELSE Append(data, Item(key, val))

(***************************************************************************)
(* The page handlers: what one request does between its file operations.   *)
(* A timestamp is not kept: an entry is known by its position in its store *)
(* and by the segment or story it was made from.                           *)
(***************************************************************************)
\* "MAX_COMMENTS = 50"
MAX_COMMENTS == 50

\* the most page requests a run starts
MaxRequests == 3

\* Asana story gids, and "" for a missing form field
Gids == {"g1", "g2"}

Missing == ""

\* the segments a client sends: s0 carries no tags, s1 and s2 do
SegmentExample(seg) ==
    CASE seg = "s1" -> [text |-> << {"w1"} >>,       tags |-> << "t1" >>]
      [] seg = "s2" -> [text |-> << {"w1", "w2"} >>, tags |-> << "t1", "t2" >>]
      [] OTHER      -> [text |-> << {"w2"} >>,       tags |-> << >>]

SegmentLists == { << >>, << "s0" >>, << "s1" >>, << "s2", "s0", "s1" >> }

\* what the Asana client returns for the project: the gids of its comments
StoryLists == { << >>, << "g1" >>, << "g1", "g2" >> }

TaggerForms ==
    [operation : {"segment_comment"}, gid : {Missing}, text : {Missing, "c"},
     segments : {<< >>}, stories : {<< >>}]
    \cup [operation : {"load_project_comments"}, gid : {Missing, "p"}, text : {Missing},
          segments : {<< >>}, stories : StoryLists]
    \cup [operation : {"save_tagged_comment"}, gid : Gids \cup {Missing},
          text : {Missing, "c"}, segments : SegmentLists, stories : {<< >>}]
    \cup [operation : {"add_new_tag"}, gid : {Missing, "t1", "t2"}, text : {Missing, "n"},
          segments : {<< >>}, stories : {<< >>}]
    \cup [operation : {"get_training_stats", "unknown"}, gid : {Missing}, text : {Missing},
          segments : {<< >>}, stories : {<< >>}]

TrainerForms ==
    [operation : {"load_for_segmentation"}, gid : {Missing, "p"}, text : {Missing},
     segments : {<< >>}, stories : StoryLists]
    \cup [operation : {"save_segmentation"}, gid : Gids \cup {Missing},
          text : {Missing, "c"}, segments : {<< "s0" >>}, stories : {<< >>}]
    \cup [operation : {"clear_processed", "get_stats", "export_training_data", "unknown"},
          gid : {Missing},
          text : {Missing}, segments : {<< >>}, stories : {<< >>}]

\* CommentTagger.train_tag_suggester: the examples it collects
RECURSIVE SegmentsOfComments(_)
SegmentsOfComments(tagged_comments) ==
    IF tagged_comments = << >> THEN << >>
    ELSE Head(tagged_comments).val \o SegmentsOfComments(Tail(tagged_comments))

\* train_tag_suggester that leaves the training log out
TaggedSegments_CommentsOnly(training_data, tagged_comments) ==
    LET segs == SegmentsOfComments(tagged_comments)
    IN  [i \in 1..Len(segs) |-> SegmentExample(segs[i])]

TaggedSegments(training_data, tagged_comments) ==
    LET from_log == [i \in 1..Len(training_data) |-> SegmentExample(training_data[i].key)]
        segs == SegmentsOfComments(tagged_comments)
    IN  from_log \o [i \in 1..Len(segs) |-> SegmentExample(segs[i])]

\* TagSuggester()
FreshSuggester ==
    [vectorizer |-> None, segment_vectors |-> None, segment_tags |-> << >>,
     trained_segments |-> << >>]

\* train_on_tagged_segments on the suggester of a request
train_on_tagged_segments(sugg, tagged_segments) ==
    IF NothingToTrainOn(tagged_segments) THEN sugg
    ELSE LET fit == FitInTry(sugg.vectorizer, sugg.segment_vectors, TextsOf(tagged_segments))
         IN  [vectorizer |-> fit.vectorizer, segment_vectors |-> fit.segment_vectors,
              segment_tags |-> TagsOf(tagged_segments),
              trained_segments |-> tagged_segments]

\* "if tagged_segments: self.tag_suggester.train_on_tagged_segments(...)"
train_tag_suggester(sugg, mem) ==
    LET tagged_segments == TaggedSegments(mem[TRAINING], mem[TAGGED])
    IN  IF tagged_segments # << >> THEN train_on_tagged_segments(sugg, tagged_segments)
        ELSE sugg

\* CommentTagger.__init__ and SegmentationTrainer.__init__: the collections
\* loaded from the files of the page's directory
LoadAll(files, d) == [f \in Files |-> IF f \in files THEN load_json(f, d[f]) ELSE << >>]

\* the steps of a handler that end in a save_json: what is changed in memory
\* and which file is then written
Step(what, arg) == [what |-> what, arg |-> arg]

RECURSIVE LearnSteps(_)
LearnSteps(segs) ==
    IF segs = << >> THEN << >>
    ELSE (IF SegmentExample(Head(segs)).tags # << >>
          THEN << Step("learn", Head(segs)) >> ELSE << >>)
         \o LearnSteps(Tail(segs))

\* a variant of SaveTaggedSteps that never marks the comment as tagged
SaveTaggedSteps_Unmarked(form) ==
    (IF form.segments # << >> THEN << Step("segtrain", form.gid) >> ELSE << >>)
    \o LearnSteps(form.segments)

\* the save_tagged_comment branch after its input check
SaveTaggedSteps(form) ==
    (IF form.segments # << >> THEN << Step("segtrain", form.gid) >> ELSE << >>)
    \o LearnSteps(form.segments)
    \o (IF LearnSteps(form.segments) # << >> THEN << Step("mark", form.gid) >> ELSE << >>)

\* a handler that checks only that the operation is known
InputError_Unchecked(form) == form.operation = "unknown"

\* "if not comment_text", "if not story_gid or not comment_text", ...
InputError(form) ==
    CASE form.operation = "segment_comment" -> form.text = Missing
      [] form.operation \in {"load_project_comments", "load_for_segmentation"} ->
            form.gid = Missing
      [] form.operation \in {"save_tagged_comment", "save_segmentation", "add_new_tag"} ->
            form.gid = Missing \/ form.text = Missing
      [] form.operation = "unknown" -> TRUE
      [] OTHER -> FALSE

StepsOf(form) ==
    CASE InputError(form) -> << >>
      [] form.operation = "save_tagged_comment" -> SaveTaggedSteps(form)
      [] form.operation = "add_new_tag" -> << Step("tagdef", form.gid) >>
      [] form.operation = "save_segmentation" ->
            << Step("example", form.gid), Step("registry", form.gid) >>
      [] form.operation = "clear_processed" -> << Step("clear", Missing) >>
      [] OTHER -> << >>

FileOf(step) ==
    CASE step.what = "segtrain" -> SEGTRAIN
      [] step.what = "learn"    -> TRAINING
      [] step.what = "mark"     -> TAGGED
      [] step.what = "tagdef"   -> TAGDEFS
      [] step.what = "example"  -> TRAINER_LOG
      [] OTHER                  -> PROCESSED

\* the change in memory that precedes the save_json of a step
Apply(mem, step, form) ==
    CASE step.what = "segtrain" ->
            [mem EXCEPT ![SEGTRAIN] = Append(@, Item(step.arg, form.segments))]
      [] step.what = "learn" ->
            [mem EXCEPT ![TRAINING] = Append(@, Item(step.arg, << >>))]
      [] step.what = "mark" ->
            [mem EXCEPT ![TAGGED] = DictSet(@, step.arg, form.segments)]
      [] step.what = "tagdef" ->
            [mem EXCEPT ![TAGDEFS] = DictSet(@, step.arg, << >>)]
      [] step.what = "example" ->
            [mem EXCEPT ![TRAINER_LOG] = Append(@, Item(step.arg, form.segments)),
                        ![PROCESSED] = DictSet(@, step.arg, << >>)]
      [] step.what = "clear" -> [mem EXCEPT ![PROCESSED] = << >>]
      [] OTHER -> mem

\* a loop without the "continue"
NotYetSeen_All(stories, registry) == stories

\* the comments of the project that are not in the registry:
\* "if tagger.is_comment_tagged(story_gid): continue"
RECURSIVE NotYetSeen(_, _)
NotYetSeen(stories, registry) ==
    IF stories = << >> THEN << >>
    ELSE (IF Head(stories) \in Keys(registry) THEN << >> ELSE << Head(stories) >>)
         \o NotYetSeen(Tail(stories), registry)

\* jsonify(...): the answer to a form
Response(form, mem) ==
    IF InputError(form) THEN [status |-> "error", comments |-> << >>]
    ELSE IF form.operation = "load_project_comments"
         THEN [status |-> "success", comments |-> NotYetSeen(form.stories, mem[TAGGED])]
    ELSE IF form.operation = "load_for_segmentation"
         THEN [status |-> "success",
               comments |-> SliceTo(NotYetSeen(form.stories, mem[PROCESSED]), MAX_COMMENTS)]
    ELSE [status |-> "success", comments |-> << >>]

\* the threads that serve requests
Threads == {1, 2}

NoForm == [operation |-> "", gid |-> Missing, text |-> Missing, segments |-> << >>,
           stories |-> << >>]

NoResponse == [status |-> "", comments |-> << >>]

EmptyMem == [f \in Files |-> << >>]

IdleRequest ==
    [pc |-> "idle", form |-> NoForm, mem |-> EmptyMem, loaded |-> EmptyMem,
     prev |-> EmptyMem, sugg |-> FreshSuggester, todo |-> << >>,
     at_start |-> [f \in Files |-> NoFile], wrote |-> None, learned |-> None,
     overlapped |-> FALSE, response |-> NoResponse, number |-> 0]

Active(r) == req[r].pc \notin {"idle", "done"}

\* no page request was ever made
NoPages ==
    /\ disk = [f \in Files |-> NoFile]
    /\ req = [r \in Threads |-> IdleRequest]
    /\ started = 0
    /\ env = [overlap |-> FALSE, faults |-> 0, requests |-> 0]
    /\ ever = {}
    /\ recorded = {}
    /\ last_writer = [f \in Files |-> 0]
    /\ succeeded = {}

(***************************************************************************)
(* CommentSegmenter.extract_dates_and_segments, as a state machine         *)
(***************************************************************************)
\* the ends of the pieces of ps that end a word or a colon, before the end
RECURSIVE TokenEnds(_, _)
TokenEnds(ps, at) ==
    IF ps = <<>> THEN {}
    ELSE (IF Head(ps)[1] \notin Whitespace /\ Len(ps) > 1 THEN {at + Len(Head(ps))} ELSE {})
             \cup TokenEnds(Tail(ps), at + Len(Head(ps)))

\* the flags a pass turned off: segments of `after` without a date whose
\* segment of `before` (the one with the same startIndex) had one
FlagsLost(before, after) ==
    { after[j].startIndex : j \in { k \in 1..Len(after) :
          /\ ~ after[k].has_date_or_time
          /\ \E i \in 1..Len(before) :
                /\ before[i].startIndex = after[k].startIndex
                /\ before[i].has_date_or_time } }

Inputs(pieces, dates) ==
    /\ \E ps \in SeqsUpTo(pieces, MaxPieces) :
          /\ text = Flatten(ps)
          /\ sentEnds \in SUBSET TokenEnds(ps, 0)
    /\ asana_date \in dates
    /\ nlp \in BOOLEAN
    /\ lib = << >>
    /\ pc = "start"
    /\ segments = << >>
    /\ initial = << >>
    /\ iteration = 0
    /\ result = << >>
    /\ lost = {}
    /\ NewSuggester
    /\ NoPages
    /\ NoCalls

InputsFrom(pieces) == Inputs(pieces, AsanaDates)

Init == InputsFrom(Pieces)

\* "if not self.nlp: return self.simple_fallback_segmentation(text, asana_date)"
Fallback ==
    /\ pc = "start" /\ ~ nlp
    /\ result' = simple_fallback_segmentation(text, asana_date)
    /\ pc' = "done"
    /\ UNCHANGED <<text, sentEnds, asana_date, nlp, lib, segments, initial, iteration, lost>>
    /\ UNCHANGED <<suggester, pages, calls>>

\* Step 1 of extract_dates_and_segments
CreateInitial ==
    /\ pc = "start" /\ nlp
    /\ initial' = create_initial_segments(text, sentEnds)
    /\ segments' = initial'
    /\ pc' = "mark"
    /\ UNCHANGED <<text, sentEnds, asana_date, nlp, lib, iteration, result, lost>>
    /\ UNCHANGED <<suggester, pages, calls>>

\* the marking loop of merge_segments_without_dates; it sets the flag in the
\* dicts of the list it was given, which is initial_segments
Mark ==
    /\ pc = "mark"
    /\ \E f \in NewAnswers(lib, { t \in { segments[i].text : i \in 1..Len(segments) } :
                                    HasDateAsksLibrary(t) }) :
          /\ lib' = f @@ lib
          /\ segments' = MarkSegments(segments, asana_date, lib')
    /\ initial' = segments'
    /\ iteration' = 0
    /\ pc' = IF iteration' < max_iterations THEN "merge" ELSE "format"
    /\ UNCHANGED <<text, sentEnds, asana_date, nlp, result, lost>>
    /\ UNCHANGED <<suggester, pages, calls>>

\* one iteration of "while iteration < max_iterations"
MergeIteration ==
    /\ pc = "merge"
    /\ iteration' = iteration + 1
    /\ IF MergeComplete(segments)
       THEN /\ pc' = "format"
            /\ UNCHANGED <<segments, lib, lost>>
       ELSE \E f \in NewAnswers(lib, { t \in MergePass(segments, asana_date, lib).asked :
                                         HasDateAsksLibrary(t) }) :
              /\ lib' = f @@ lib
              /\ \E pass \in {MergePass(segments, asana_date, lib')} :
                     /\ segments' = pass.segments
                     /\ lost' = lost \cup FlagsLost(segments, pass.segments)
                     /\ pc' = IF ~ pass.merged_any THEN "format"
                              ELSE IF iteration' < max_iterations THEN "merge"
                              ELSE "format"
    /\ UNCHANGED <<text, sentEnds, asana_date, nlp, initial, result>>
    /\ UNCHANGED <<suggester, pages, calls>>

\* the formatting loop and the return
Format ==
    /\ pc = "format"
    /\ \E f \in NewAnswers(lib, { t \in { segments[i].text : i \in 1..Len(segments) } :
                                    ExtractAsksLibrary(t) }) :
          /\ lib' = f @@ lib
          /\ result' = FormatSegments(segments, asana_date, lib')
    /\ pc' = "done"
    /\ UNCHANGED <<text, sentEnds, asana_date, nlp, segments, initial, iteration, lost>>
    /\ UNCHANGED <<suggester, pages, calls>>

Next == Fallback \/ CreateInitial \/ Mark \/ MergeIteration \/ Format

Spec == Init /\ [][Next]_vars

\* the same program on comments that use the words "today" and "yesterday"
WordPieces == { W_yesterday, W_today, <<"s">>, <<"\n">>, <<"5", "/", "1">> }

InitWords == InputsFrom(WordPieces)

SpecWords == InitWords /\ [][Next]_vars

\* r'\bbefore\b' and r'\balready\b', patterns of the CommentSegmenter of
\* comment_tagger.py that DateExtractor does not have
W_before == <<"b", "e", "f", "o", "r", "e">>

W_already == <<"a", "l", "r", "e", "a", "d", "y">>

\* the same program on comments that use words for the past
PastPieces == { W_before, W_already, <<"L", "a", "s", "t">>, W_week, <<" ">> }

InitPast == InputsFrom(PastPieces)

SpecPast == InitPast /\ [][Next]_vars

\* the same program called with the asana_date strings a form can carry
InitRaw == Inputs(Pieces, RawAsanaDates)

SpecRaw == InitRaw /\ [][Next]_vars

(***************************************************************************)
(* TagSuggester, as a state machine: training calls and suggestion calls   *)
(* in any order.                                                           *)
(***************************************************************************)
\* no comment is being segmented
SegmenterIdle ==
    /\ text = << >> /\ sentEnds = {} /\ asana_date = NoDate /\ nlp = FALSE
    /\ lib = << >> /\ pc = "idle" /\ segments = << >> /\ initial = << >>
    /\ iteration = 0 /\ result = << >> /\ lost = {}

InitSuggest == SegmenterIdle /\ NewSuggester /\ NoPages /\ NoCalls

\* train_on_tagged_segments(tagged_segments)
Train ==
    /\ \E tagged_segments \in ExampleLists :
          /\ last_examples' = << tagged_segments >>
          /\ IF NothingToTrainOn(tagged_segments)
             THEN /\ trainings' = trainings \cup {"empty"}
                  /\ UNCHANGED <<vectorizer, segment_vectors, segment_tags, trained_segments>>
             ELSE LET texts == [i \in 1..Len(tagged_segments) |-> tagged_segments[i].text]
                      fit == FitInTry(vectorizer, segment_vectors, texts)
                  IN  /\ trained_segments' = tagged_segments
                      /\ segment_tags' = [i \in 1..Len(tagged_segments) |-> tagged_segments[i].tags]
                      /\ vectorizer' = fit.vectorizer
                      /\ segment_vectors' = fit.segment_vectors
                      /\ trainings' = trainings \cup
                            { IF fit_transform(texts).raised THEN "failed" ELSE "fitted" }
    /\ suggested' = None
    /\ UNCHANGED <<segmenter, pages, calls>>

\* suggest_tags(segment_text, top_k)
Suggest ==
    /\ \E segment_text \in Queries, top_k \in TopKs :
          \E similarities \in
                IF NoTrainingData(segment_vectors, trained_segments)
                   \/ TransformRaises(vectorizer, segment_text)
                THEN { << >> }
                ELSE Cosines(segment_text[1] \cap vectorizer[1], segment_vectors[1]) :
             \E order \in ArgSorts(similarities) :
                suggested' =
                    << [segment_text |-> segment_text, top_k |-> top_k,
                        similarities |-> similarities, order |-> order,
                        call |-> suggest_tags(vectorizer, segment_vectors, segment_tags,
                                              trained_segments, segment_text, top_k,
                                              similarities, order)] >>
    /\ UNCHANGED <<vectorizer, segment_vectors, segment_tags, trained_segments,
                   trainings, last_examples>>
    /\ UNCHANGED <<segmenter, pages, calls>>

NextSuggest == Train \/ Suggest

SpecSuggest == InitSuggest /\ [][NextSuggest]_vars

(***************************************************************************)
(* The page handlers as a state machine.  A request loads its stores when  *)
(* it constructs its CommentTagger or SegmentationTrainer, and every       *)
(* save_json is two file operations: the open that truncates and the close *)
(* that writes.  What a request does in memory between two file operations *)
(* is part of the file operation before it.                                *)
(***************************************************************************)
InitPages(overlap, faults, requests) ==
    /\ SegmenterIdle /\ NewSuggester /\ NoCalls
    /\ disk = [f \in Files |-> NoFile]
    /\ req = [r \in Threads |-> IdleRequest]
    /\ started = 0
    /\ env = [overlap |-> overlap, faults |-> faults, requests |-> requests]
    /\ ever = {}
    /\ recorded = {}
    /\ last_writer = [f \in Files |-> 0]
    /\ succeeded = {}

\* the pairs (position, entry) of a training log
Positions(data) == { <<i, data[i].key>> : i \in 1..Len(data) }

\* the success history once request q stands as given: "return jsonify({
\* 'success': True, 'message': 'Comment tagged successfully', ...})"
Answered(q) ==
    IF q.pc = "done" /\ q.form.operation = "save_tagged_comment"
                     /\ q.response.status = "success"
    THEN succeeded \cup { [gid |-> q.form.gid, number |-> q.number,
                           tagged |-> LearnSteps(q.form.segments) # << >>] }
    ELSE succeeded

\* a request arrives: the handler constructs its object, checks the form
\* and runs up to its first save_json, or to its response
Start(r, files, form) ==
    /\ started < env.requests
    /\ ~ Active(r)
    /\ \A o \in Threads \ {r} : Active(o) => env.overlap
    /\ r = 1 \/ Active(1)
    /\ started' = started + 1
    /\ LET loaded == LoadAll(files, disk)
           sugg == IF TRAINING \in files THEN train_tag_suggester(FreshSuggester, loaded)
                   ELSE FreshSuggester
           todo == StepsOf(form)
           meets == \E o \in Threads \ {r} : Active(o)
       IN  req' = [o \in Threads |->
                    IF o = r
                    THEN [pc |-> IF todo = << >> THEN "done" ELSE "open",
                          form |-> form,
                          mem |-> IF todo = << >> THEN loaded
                                  ELSE Apply(loaded, Head(todo), form),
                          loaded |-> loaded, prev |-> loaded, sugg |-> sugg,
                          todo |-> todo, at_start |-> disk, wrote |-> None,
                          learned |-> None, overlapped |-> meets,
                          response |-> IF todo = << >> THEN Response(form, loaded)
                                       ELSE NoResponse,
                          number |-> started']
                    ELSE IF Active(o) THEN [req[o] EXCEPT !.overlapped = TRUE]
                    ELSE req[o]]
    /\ succeeded' = Answered(req'[r])
    /\ UNCHANGED <<disk, env, ever, recorded, last_writer>>
    /\ UNCHANGED <<segmenter, suggester, calls>>

\* handle_comment_tagger_page(page_name, form_data, session_id, asana_client)
StartTagger(r) == \E form \in TaggerForms : Start(r, TaggerFiles, form)

\* handle_segmentation_trainer_page(page_name, form_data, session_id, asana_client)
StartTrainer(r) == \E form \in TrainerForms : Start(r, TrainerFiles, form)

\* the request after the save_json of its current step ended with outcome:
\* learn_from_tagging retrains, and the handler goes on to its next
\* save_json or to its response
AfterSave(r, d, before, outcome) ==
    LET q == req[r]
        step == Head(q.todo)
        rest == Tail(q.todo)
        sugg == IF step.what = "learn" THEN train_tag_suggester(q.sugg, q.mem) ELSE q.sugg
    IN  [q EXCEPT
           !.pc = IF rest = << >> THEN "done" ELSE "open",
           !.sugg = sugg,
           !.todo = rest,
           !.prev = q.mem,
           !.mem = IF rest = << >> THEN q.mem ELSE Apply(q.mem, Head(rest), q.form),
           !.wrote = << [file |-> FileOf(step), before |-> before, outcome |-> outcome] >>,
           !.learned = IF step.what = "learn"
                       THEN << [before |-> q.prev[TRAINING], after |-> q.mem[TRAINING],
                                entry |-> step.arg, file |-> d[TRAINING],
                                trained |-> sugg.trained_segments] >>
                       ELSE q.learned,
           !.response = IF rest = << >> THEN Response(q.form, q.mem) ELSE NoResponse]

\* the registry history after a step
Recorded(step) ==
    CASE step.what = "registry" -> recorded \cup {step.arg}
      [] step.what = "clear" -> {}
      [] OTHER -> recorded

\* "with open(filepath, 'w') as f": the file is truncated, or the open
\* raises and save_json logs the error
Open(r) ==
    /\ req[r].pc = "open"
    /\ LET file == FileOf(Head(req[r].todo))
       IN  \E opened \in IF env.faults > 0 THEN BOOLEAN ELSE {TRUE} :
              IF opened
              THEN /\ disk' = [disk EXCEPT ![file] = Truncated]
                   /\ req' = [req EXCEPT ![r].pc = "dump",
                                         ![r].wrote = << [file |-> file, before |-> disk[file],
                                                          outcome |-> "writing"] >>]
                   /\ UNCHANGED <<recorded, env>>
              ELSE /\ req' = [req EXCEPT ![r] = AfterSave(r, disk, disk[file], "failed")]
                   /\ recorded' = Recorded(Head(req[r].todo))
                   /\ env' = [env EXCEPT !.faults = @ - 1]
                   /\ UNCHANGED disk
    /\ succeeded' = Answered(req'[r])
    /\ UNCHANGED <<started, ever, last_writer>>
    /\ UNCHANGED <<segmenter, suggester, calls>>

\* "json.dump(data, f, indent=2)" and the close of the with-block: the
\* buffer reaches the file whole, or the dump raises part way, the part
\* written so far is flushed by the close and save_json logs the error
Dump(r) ==
    /\ req[r].pc = "dump"
    /\ LET file == FileOf(Head(req[r].todo))
           buffer == Serialize(file, req[r].mem[file])
           before == req[r].wrote[1].before
       IN  \E n \in IF env.faults > 0 THEN 0..Len(buffer) ELSE {Len(buffer)} :
              /\ disk' = [disk EXCEPT ![file] = Written(@, SubSeq(buffer, 1, n))]
              /\ req' = [req EXCEPT ![r] =
                           AfterSave(r, disk', before,
                                     IF n = Len(buffer) THEN "saved" ELSE "failed")]
              /\ ever' = IF file = TRAINING /\ ValidJson(file, disk'[file].bytes)
                         THEN ever \cup Positions(load_json(file, disk'[file]))
                         ELSE ever
              /\ last_writer' = [last_writer EXCEPT ![file] = r]
              /\ env' = [env EXCEPT !.faults = IF n = Len(buffer) THEN @ ELSE @ - 1]
    /\ recorded' = Recorded(Head(req[r].todo))
    /\ succeeded' = Answered(req'[r])
    /\ UNCHANGED started
    /\ UNCHANGED <<segmenter, suggester, calls>>

NextPages == \E r \in Threads : StartTagger(r) \/ StartTrainer(r) \/ Open(r) \/ Dump(r)

\* requests one after the other, no file operation fails
SpecPages == InitPages(FALSE, 0, MaxRequests) /\ [][NextPages]_vars

\* requests one after the other, one file operation can fail
SpecFaults == InitPages(FALSE, 1, MaxRequests) /\ [][NextPages]_vars

\* two requests that can overlap, no file operation fails
SpecOverlap == InitPages(TRUE, 0, 2) /\ [][NextPages]_vars

(***************************************************************************)
(* DateExtractor.validate_date called on its own.                          *)
(***************************************************************************)
\* a call validate_date(date_value, reference_date) is about to be made; the
\* reference date is the midnight or the noon of its day
InitValidate ==
    /\ SegmenterIdle /\ NewSuggester /\ NoPages
    /\ \E ymd \in ReferenceDays, noon \in {0, 1}, k \in DateDistances :
          validation = << [day |-> ymd,
                           reference_date |-> 2 * DayNumber(ymd) + noon,
                           date_value |-> 2 * DayNumber(ymd) + noon + k,
                           returned |-> None] >>

\* the call returns
Validate ==
    /\ validation # << >>
    /\ validation[1].returned = None
    /\ validation' = << [validation[1] EXCEPT !.returned =
                            << validate_date(validation[1].date_value,
                                             validation[1].reference_date) >>] >>
    /\ UNCHANGED <<segmenter, suggester, pages>>

NextValidate == Validate

SpecValidate == InitValidate /\ [][NextValidate]_vars

(***************************************************************************)
(* Properties of extract_dates_and_segments.                               *)
(***************************************************************************)
Returned == pc = "done"

ReturnedByNlp == pc = "done" /\ nlp

Extracted(i) == result[i].dateSource = "extracted"

\* the texts of the returned segments, joined in order
RECURSIVE JoinTexts(_)
JoinTexts(segs) == IF segs = <<>> THEN <<>> ELSE Head(segs).text \o JoinTexts(Tail(segs))

IsPrefix(p, t) == Len(p) <= Len(t) /\ SubSeq(t, 1, Len(p)) = p

\* the characters of the text from offset a up to offset b are all whitespace
BlankBetween(a, b) == \A k \in (a + 1)..b : text[k] \in Whitespace

\* the steps extract_dates_and_segments can still take: the statements that
\* follow the current one, and the iterations the merge loop has left
StepsLeft ==
    CASE pc = "start"  -> max_iterations + 4
      [] pc = "mark"   -> max_iterations + 3
      [] pc = "merge"  -> (max_iterations - iteration) + 2
      [] pc = "format" -> 1
      [] pc = "done"   -> 0

\* C1: for every text, reference date and library behaviour (flags that flip
\* on a merge included), extract_dates_and_segments never runs more than 100
\* iterations of the merge loop, every step it takes brings it closer to its
\* return (so the loop terminates), and it returns at least one segment.
C1_TerminatesWithASegment ==
    /\ [](/\ iteration <= max_iterations
          /\ StepsLeft >= 0
          /\ (Returned => Len(result) >= 1))
    /\ [][StepsLeft' < StepsLeft]_vars

\* a run that returned after a dated span lost its date on a merge and was
\* merged away in a later pass
C1_Witness ==
    /\ ReturnedByNlp /\ iteration >= 3 /\ lost # {}
    /\ Len(initial) >= 3 /\ Len(result) = 1

C3_FirstSpanStandsAlone ==
    ReturnedByNlp =>
        /\ result[1].startIndex = initial[1].startIndex
        /\ IsPrefix(initial[1].text, result[1].text)
        /\ (Len(initial) >= 2 /\ ~ initial[1].has_date_or_time /\ initial[2].has_date_or_time)
              => /\ result[1].text = initial[1].text
                 /\ result[1].endIndex = initial[1].endIndex
                 /\ result[1].dateSource = "asana_timestamp"

\* C3 amended: the first returned segment starts where the first initial span
\* starts and begins with its text; when the first initial span has no date
\* while the second has one, the first span is returned standalone with
\* dateSource 'asana_timestamp' unless the segment that starts at the second
\* span lost its date flag when a later span was merged into it.
C3_FirstSpanStandsAloneUnlessFlagLost ==
    ReturnedByNlp =>
        /\ result[1].startIndex = initial[1].startIndex
        /\ IsPrefix(initial[1].text, result[1].text)
        /\ (/\ Len(initial) >= 2
            /\ ~ initial[1].has_date_or_time /\ initial[2].has_date_or_time
            /\ initial[2].startIndex \notin lost)
              => /\ result[1].text = initial[1].text
                 /\ result[1].endIndex = initial[1].endIndex
                 /\ result[1].dateSource = "asana_timestamp"

\* an undated first span returned alone although the dated second span took
\* a merge
C3_Witness ==
    /\ ReturnedByNlp /\ Len(initial) >= 3 /\ Len(result) = 2
    /\ ~ initial[1].has_date_or_time /\ initial[2].has_date_or_time
    /\ result[1].text = initial[1].text
    /\ result[2].endIndex = initial[3].endIndex

\* C4: with a reference date given, every returned segment with dateSource
\* 'extracted' is dated on or before the reference date and not more than
\* 3650 days (less than 10 calendar years) before it.
C4_ExtractedDateInWindow ==
    (Returned /\ asana_date # NoDate) =>
        \A i \in 1..Len(result) :
            Extracted(i) =>
                /\ result[i].date.form = "ymd"
                /\ result[i].date.day <= asana_date.day
                /\ result[i].date.day >= asana_date.day - 365 * 10

\* an extracted segment dated by the libraries, before the reference date
C4_Witness ==
    /\ ReturnedByNlp /\ asana_date # NoDate
    /\ \E i \in 1..Len(result) :
          /\ Extracted(i)
          /\ result[i].date.day < asana_date.day
          /\ AnswerOf(lib, result[i].text).sd # <<>>

\* C5: every returned segment has 0 <= startIndex <= endIndex <= len(text),
\* and of two consecutive segments the earlier ends at or before the start
\* of the later.
C5_OffsetsOrdered ==
    Returned =>
        /\ \A i \in 1..Len(result) :
              /\ 0 <= result[i].startIndex
              /\ result[i].startIndex <= result[i].endIndex
              /\ result[i].endIndex <= Len(text)
        /\ \A i \in 1..(Len(result) - 1) : result[i].endIndex <= result[i + 1].startIndex

\* several segments returned after a merge pass that merged
C5_Witness ==
    /\ ReturnedByNlp /\ Len(result) >= 2 /\ Len(result) < Len(initial)

\* C6 as stated: the returned segments tile the text: the first starts at 0,
\* the last ends at len(text), each ends where the next starts.
C6_SegmentsTileText ==
    Returned =>
        /\ result[1].startIndex = 0
        /\ result[Len(result)].endIndex = Len(text)
        /\ \A i \in 1..(Len(result) - 1) : result[i].endIndex = result[i + 1].startIndex

\* C6 amended: the returned segments cover the text up to whitespace: they
\* are in order and do not overlap, and every character before the first
\* segment, between two consecutive segments and after the last segment is
\* a whitespace character.
C6_SegmentsTileTextUpToWhitespace ==
    Returned =>
        /\ BlankBetween(0, result[1].startIndex)
        /\ BlankBetween(result[Len(result)].endIndex, Len(text))
        /\ \A i \in 1..(Len(result) - 1) :
              /\ result[i].endIndex <= result[i + 1].startIndex
              /\ BlankBetween(result[i].endIndex, result[i + 1].startIndex)

\* segments returned after a merge, with whitespace in front of the first
C6_Witness ==
    /\ ReturnedByNlp /\ Len(result) < Len(initial)
    /\ result[1].startIndex > 0

\* C7: the texts of the returned segments, joined in order, are the original
\* text once whitespace is deleted from both.
C7_TextReconstructed ==
    Returned => NoWhitespace(JoinTexts(result)) = NoWhitespace(text)

\* a comment with dropped whitespace, split into spans and merged again
C7_Witness ==
    /\ ReturnedByNlp /\ Len(initial) >= 2 /\ Len(result) < Len(initial)
    /\ NoWhitespace(text) # text

\* C8: with a reference date given, every returned segment with dateSource
\* 'asana_timestamp' carries the reference date.
C8_TimestampSegmentsCarryReferenceDate ==
    (Returned /\ asana_date # NoDate) =>
        \A i \in 1..Len(result) :
            result[i].dateSource = "asana_timestamp" => result[i].date = asana_date

\* C9: without the NLP model, the result is the whole text as one segment
\* from 0 to len(text), dated with the reference date ('asana_timestamp') or,
\* when none is given, with the processing date ('default'); nothing is
\* split or merged.
C9_FallbackIsWholeText ==
    (Returned /\ ~ nlp) =>
        /\ Len(result) = 1
        /\ result[1].text = text
        /\ result[1].startIndex = 0
        /\ result[1].endIndex = Len(text)
        /\ asana_date # NoDate =>
              result[1].date = asana_date /\ result[1].dateSource = "asana_timestamp"
        /\ asana_date = NoDate =>
              /\ result[1].date = [form |-> "ymd", day |-> Now \div 2]
              /\ result[1].dateSource = "default"
        /\ segments = <<>> /\ initial = <<>> /\ iteration = 0 /\ lib = << >>

\* the fallback taken on a text that has boundaries, without a reference date
C9_Witness ==
    /\ Returned /\ ~ nlp /\ asana_date = NoDate
    /\ NewlineBoundaries(text) # {} /\ Len(text) >= 3
(***************************************************************************)
(* Properties of TagSuggester.                                             *)
(***************************************************************************)
\* C10: suggest_tags on a suggester without training data (never trained,
\* trained only with empty lists, or trained only by attempts that failed)
\* returns an empty list and raises nothing, for every query text and top_k.
C10_UntrainedSuggestsNothing ==
    (suggested # None /\ "fitted" \notin trainings) =>
        /\ suggested[1].call.returned = << >>
        /\ ~ suggested[1].call.raised

\* a suggestion asked after a failed training on examples that share a token
\* with the query
C10_Witness ==
    /\ suggested # None /\ trainings = {"failed"}
    /\ suggested[1].segment_text # None
    /\ \E i \in 1..Len(trained_segments) :
          /\ trained_segments[i].text # None
          /\ trained_segments[i].text[1] \cap suggested[1].segment_text[1] # {}
\* the list the last suggest_tags call returned, and its top_k
LastReturned == suggested[1].call.returned

LastTopK == suggested[1].top_k

\* the entries of a returned list are well formed: no tag twice, confidences
\* non-increasing, each in (0, 1], the first exactly 1, auto_select exactly
\* above 0.7
WellRanked(returned) ==
    /\ \A i, j \in 1..Len(returned) : i # j => returned[i].tag # returned[j].tag
    /\ \A i \in 1..(Len(returned) - 1) :
          returned[i].confidence.num * returned[i + 1].confidence.den
              >= returned[i + 1].confidence.num * returned[i].confidence.den
    /\ \A i \in 1..Len(returned) :
          /\ 0 < returned[i].confidence.num
          /\ returned[i].confidence.num <= returned[i].confidence.den
          /\ returned[i].auto_select <=>
                (10 * returned[i].confidence.num > 7 * returned[i].confidence.den)
    /\ returned[1].confidence.num = returned[1].confidence.den

\* C11 as stated: every non-empty list suggest_tags returns has at most top_k
\* entries and is well ranked.
C11_RankedAndAtMostTopK ==
    (suggested # None /\ LastReturned # << >>) =>
        /\ Len(LastReturned) <= LastTopK
        /\ WellRanked(LastReturned)

\* C11 amended: every non-empty list suggest_tags returns is well ranked, and
\* has at most top_k entries when top_k is not negative; with a negative
\* top_k the slices [-top_k:] and [:top_k] drop entries from the other end
\* and the list can be longer than top_k.
C11_RankedAndAtMostCountTopK ==
    (suggested # None /\ LastReturned # << >>) =>
        /\ LastTopK >= 0 => Len(LastReturned) <= LastTopK
        /\ WellRanked(LastReturned)

\* a list cut down to top_k = 1 although two tags were candidates
C11_Witness ==
    /\ suggested # None /\ LastTopK = 1 /\ Len(LastReturned) = 1
    /\ \E i \in 1..Len(segment_tags) :
          /\ Len(segment_tags[i]) = 2
          /\ LastReturned[1].tag \in { segment_tags[i][1], segment_tags[i][2] }
          /\ Len(trained_segments) = 1
\* the tags any training example can carry
AllTags == UNION { { e.tags[i] : i \in 1..Len(e.tags) } : e \in Examples }

RECURSIVE SumOf(_, _)
SumOf(f, S) ==
    IF S = {} THEN 0
    ELSE LET x == CHOOSE y \in S : TRUE IN f[x] + SumOf(f, S \ {x})

\* the examples that are among the k most similar to the last query, in the
\* order the similarities were sorted
MostSimilar(k) ==
    LET n == Len(suggested[1].order)
    IN  { suggested[1].order[i] : i \in { j \in 1..n : j > n - k } }

\* of these, the examples above the threshold that carry the tag
Contributors(k, tag) ==
    { idx \in MostSimilar(k) :
        /\ suggested[1].similarities[idx] > 50
        /\ idx <= Len(trained_segments)
        /\ \E i \in 1..Len(trained_segments[idx].tags) : trained_segments[idx].tags[i] = tag }

\* the loop over the top indices ran to its end
LoopCompleted(k) ==
    \A idx \in MostSimilar(k) :
        suggested[1].similarities[idx] > 50 => idx <= Len(trained_segments)

\* the accumulated scores are the sums over the contributors
ScoresAreSums(k) ==
    LET scores == suggested[1].call.tag_scores
    IN  \A tag \in AllTags :
           /\ (\E j \in 1..Len(scores) : scores[j].tag = tag) <=> Contributors(k, tag) # {}
           /\ \A j \in 1..Len(scores) :
                 scores[j].tag = tag =>
                     scores[j].score = SumOf(suggested[1].similarities, Contributors(k, tag))

C13_IndexIsLastTrainingAlone ==
    last_examples # None =>
        LET examples == last_examples[1]
        IN  /\ examples # << >> =>
                 /\ trained_segments = examples
                 /\ segment_tags = TagsOf(examples)
                 /\ segment_vectors # None =>
                       /\ Len(segment_vectors[1]) = Len(examples)
                       /\ ~ fit_transform(TextsOf(examples)).raised
                       /\ segment_vectors[1] = fit_transform(TextsOf(examples)).rows
            /\ (examples = << >> /\ suggested # None) => LastReturned = << >>

(***************************************************************************)
(* Properties of the page handlers and their JSON stores.                  *)
(***************************************************************************)
\* the elements of a sequence
Range(seq) == { seq[i] : i \in 1..Len(seq) }

\* the learn_from_tagging calls that have returned, per request
Learned == { req[r].learned[1] : r \in { t \in Threads : req[t].learned # None } }

\* C14: in runs where no file operation fails, learn_from_tagging appends
\* exactly one entry to the end of the training log and leaves the earlier
\* entries as they were, training_data.json then holds the whole log, and
\* the examples the suggester is trained on include every entry of the log
C14_LearnAppendsWritesRetrains ==
    \A l \in Learned :
        /\ l.after = Append(l.before, Item(l.entry, << >>))
        /\ l.file = [exists |-> TRUE, bytes |-> Serialize(TRAINING, l.after)]
        /\ \A i \in 1..Len(l.after) :
              SegmentExample(l.after[i].key) \in Range(l.trained)

\* a learn_from_tagging call on a log that already had an entry
C14_Witness == \E l \in Learned : Len(l.before) >= 1 /\ Len(l.trained) > Len(l.after)

\* no request is being served
Quiescent == \A r \in Threads : ~ Active(r)

\* the training log that a tagger constructed now would find persisted
PersistedLog == load_json(TRAINING, disk[TRAINING])

\* C15: between requests, whenever training_data.json holds a log, every
\* entry that the file has ever held is still in it at the same position,
\* also after requests whose load_json fell back to the empty default
C15_PersistedLogAppendOnly ==
    (Quiescent /\ ValidJson(TRAINING, disk[TRAINING].bytes)) => ever \subseteq Positions(PersistedLog)

\* the save_json calls that have ended and whose request has not gone on
\* to its next file operation
Saves == { req[r].wrote[1] : r \in { t \in Threads : req[t].wrote # None } }

\* C16: a save_json that failed on a file that held good data has left the
\* file with exactly the content it had before the write began
C16_FailedWriteKeepsFile ==
    \A w \in Saves :
        (w.outcome = "failed" /\ ValidJson(w.file, w.before.bytes)) => disk[w.file] = w.before

\* the files to whose collection a request adds an entry
FilesAddedTo(form) ==
    { FileOf(StepsOf(form)[i]) :
        i \in { j \in 1..Len(StepsOf(form)) : StepsOf(form)[j].what # "clear" } }

\* two requests that overlapped have both finished, and both added to file
BothAdded(file) ==
    /\ Quiescent
    /\ \A r \in Threads : req[r].overlapped /\ file \in FilesAddedTo(req[r].form)

\* C17: once two overlapping requests that both added to a store have
\* finished, the file holds exactly the collection that the request that
\* wrote last had in memory
C17_LastWriterWins ==
    \A file \in Files :
        BothAdded(file) =>
            disk[file] = [exists |-> TRUE,
                          bytes |-> Serialize(file, req[last_writer[file]].mem[file])]

\* request r was answered and lacked a required form field
Rejected(r) ==
    /\ req[r].pc = "done"
    /\ req[r].form.operation \in {"segment_comment", "save_tagged_comment",
                                  "save_segmentation", "add_new_tag"}
    /\ \/ req[r].form.text = Missing
       \/ req[r].form.operation # "segment_comment" /\ req[r].form.gid = Missing

\* C18: a request that lacks a required form field is answered with an
\* error, and every store, in memory and on disk, is as the request found it
C18_InputErrorChangesNothing ==
    \A r \in Threads :
        Rejected(r) =>
            /\ req[r].response.status = "error"
            /\ req[r].mem = req[r].loaded
            /\ disk = req[r].at_start

\* a rejected save request that found stores with entries
C18_Witness ==
    \E r \in Threads :
        /\ Rejected(r)
        /\ req[r].form.operation \in {"save_tagged_comment", "save_segmentation"}
        /\ req[r].form.segments # << >>
        /\ \E file \in Files : req[r].loaded[file] # << >>

\* SegmentationTrainer.is_comment_processed in request r
is_comment_processed(r, story_gid) == story_gid \in Keys(req[r].mem[PROCESSED])

\* request r has run clear_processed to its end
Cleared(r) == req[r].pc = "done" /\ req[r].form.operation = "clear_processed"

RegistryOf(form) ==
    IF form.operation = "load_project_comments" THEN TAGGED ELSE PROCESSED

\* request r has answered a load_project_comments or load_for_segmentation
Loaded(r) ==
    /\ req[r].pc = "done"
    /\ req[r].form.operation \in {"load_project_comments", "load_for_segmentation"}

\* C20: no comment that a load request returns has a story gid that is in
\* the registry the request loaded when it started
C20_ReturnedCommentsAreNew ==
    \A r \in Threads :
        Loaded(r) =>
            \A story_gid \in Range(req[r].response.comments) :
                story_gid \notin Keys(req[r].loaded[RegistryOf(req[r].form)])

\* a load request that skipped one comment of the project and returned another
C20_Witness ==
    \E r \in Threads :
        /\ Loaded(r)
        /\ req[r].response.comments # << >>
        /\ Range(req[r].form.stories) \cap Keys(req[r].loaded[RegistryOf(req[r].form)]) # {}

(***************************************************************************)
(* Properties of DateExtractor.                                            *)
(***************************************************************************)
\* the validate_date calls that have returned
Validated == { validation[i] : i \in { j \in 1..Len(validation) : validation[j].returned # None } }

\* C21: validate_date returns true exactly for the dates from ten calendar
\* years before the reference day up to and including the reference day
C21_ValidExactlyInTenYearWindow ==
    \A v \in Validated :
        v.returned[1] <=>
            /\ DayOf(v.date_value) <= DayNumber(v.day)
            /\ DayOf(v.date_value) >= DayNumber(YearsBefore(v.day, 10))

\* the lower-cased text holds one of the relative-past expressions as a
\* whole word
RelativePast(lowered) ==
    \/ MatchesTimePattern(lowered)
    \/ HasWord(lowered, W_before)
    \/ HasWord(lowered, W_already)

\* the segments carry the flags has_date_or_time_reference gave them
Marked == nlp /\ pc \in {"merge", "format", "done"}

\* C22: has_date_or_time_reference is true for every text that holds, as a
\* whole word and in any case, one of today, yesterday, N days/weeks/months/
\* years ago, last week/month/year, this morning/afternoon/evening, earlier,
\* previously, before, already
C22_RelativePastIsDetected ==
    Marked =>
        \A i \in 1..Len(segments) :
            RelativePast(Lower(segments[i].text)) => segments[i].has_date_or_time

\* the first element of a sequence of optional values that is a value
RECURSIVE FirstValue(_)
FirstValue(options) ==
    IF options = << >> THEN None
    ELSE IF Head(options) # None THEN Head(options)
    ELSE FirstValue(Tail(options))

\* what each rule of extract_segment_date yields for a text, in the order of
\* the rules: None, or the date of the rule
RuleDates(segment_text) ==
    LET processed == preprocess_text_for_dates(segment_text)
        lowered == Lower(processed)
        ref == ReferenceDate(asana_date)
        ans == AnswerOf(lib, segment_text)
        search == FirstValidMatch(processed, ref, ans.sd)
        entity == FirstValidEntity(processed, ref, ans.ents, {"DATE"})
    IN  << IF Contains(lowered, W_today) THEN << strftime(ref) >> ELSE None,
           IF Contains(lowered, W_yesterday) THEN << strftime(ref - timedelta(1)) >> ELSE None,
           IF search # None THEN << strftime(search[1]) >> ELSE None,
           IF entity # None THEN << strftime(entity[1]) >> ELSE None,
           IF /\ ~ LooksLikeOrdinals(processed) /\ ans.whole # None
              /\ validate_date(ref + ans.whole[1], ref)
           THEN << strftime(ref + ans.whole[1]) >> ELSE None,
           IF parse_reference_date(asana_date) # None
           THEN << strftime(parse_reference_date(asana_date)[1]) >> ELSE None,
           << strftime(Now) >> >>

\* C23: the date of every segment that extract_segment_date dated is the
\* date of the first rule that yields one, in the order: the word today,
\* the word yesterday, first valid non-ordinal date match, first valid
\* named-entity date, valid whole-text parse, the reference date, the
\* processing date
C23_FirstApplicableRuleDates ==
    ReturnedByNlp =>
        \A i \in 1..Len(result) :
            << result[i].date >> = FirstValue(RuleDates(result[i].text))

\* a returned segment whose text holds the word today and an explicit date
\* that is valid, dated with the reference date
C23_Witness ==
    /\ ReturnedByNlp
    /\ \E i \in 1..Len(result) :
          /\ RuleDates(result[i].text)[1] # None
          /\ RuleDates(result[i].text)[3] # None
          /\ RuleDates(result[i].text)[3] # RuleDates(result[i].text)[1]
          /\ << result[i].date >> = RuleDates(result[i].text)[1]

\* C24: whatever the text and the asana_date string, every segment that
\* extract_segment_date dated has a date of the form YYYY-MM-DD
C24_DatesAreCalendarDates ==
    ReturnedByNlp => \A i \in 1..Len(result) : result[i].date.form = "ymd"

(***************************************************************************)
(* Properties of the merge loop                                            *)
(***************************************************************************)
\* the spans a pass keeps as output spans of their own: the first one and
\* those that have a date when the pass starts
KeptSpans(segs) == { i \in 1..Len(segs) : i = 1 \/ segs[i].has_date_or_time }

\* the last span of the run of undated spans that follows span k
RunEnd(segs, k) ==
    CHOOSE j \in k..Len(segs) :
        /\ \A m \in (k + 1)..j : ~ segs[m].has_date_or_time
        /\ j = Len(segs) \/ segs[j + 1].has_date_or_time

\* the texts of spans a..b, joined with single spaces
RECURSIVE SpacedTexts(_, _, _)
SpacedTexts(segs, a, b) ==
    IF a = b THEN segs[a].text
    ELSE SpacedTexts(segs, a, b - 1) \o <<" ">> \o segs[b].text

\* what one pass over `before` leaves, given the libraries' answers f
PassFolds(before, after, asana, f) ==
    /\ Len(after) = Cardinality(KeptSpans(before))
    /\ \A k \in KeptSpans(before) :
          \E j \in {Cardinality({ m \in KeptSpans(before) : m <= k })},
             e \in {RunEnd(before, k)} :
             /\ after[j].startIndex = before[k].startIndex
             /\ after[j].endIndex = before[e].endIndex
             /\ after[j].text = SpacedTexts(before, k, e)
             /\ after[j].has_date_or_time =
                   IF e = k THEN before[k].has_date_or_time
                   ELSE has_date_or_time_reference(after[j].text, asana, TRUE,
                                                   AnswerOf(f, after[j].text))

\* C25: one pass folds every span after the first that has no date, runs of
\* them included, into the output span before it: the texts are joined with
\* single spaces, the output span ends where the last folded span ends and
\* starts where it started, its date flag is the one of the merged text, and
\* a span that has a date when the pass starts opens an output span of its own.
C25_PassFoldsUndatedSpans ==
    [][ (pc = "merge" /\ ~ MergeComplete(segments))
            => PassFolds(segments, segments', asana_date, lib') ]_vars

\* a run of two undated spans folded into the first span by the first pass
C25_Witness ==
    /\ nlp /\ pc = "merge" /\ iteration = 1
    /\ Len(initial) >= 3 /\ Len(segments) = 1
    /\ ~ initial[2].has_date_or_time /\ ~ initial[3].has_date_or_time

\* C26: the dateSource of every returned segment is 'extracted' exactly when
\* has_date_or_time_reference is true of the segment's final text with the
\* same reference date: no flag is left over from an earlier text.
C26_FlagMatchesFinalText ==
    ReturnedByNlp =>
        \A i \in 1..Len(result) :
            Extracted(i) <=> has_date_or_time_reference(result[i].text, asana_date, TRUE,
                                                        AnswerOf(lib, result[i].text))

\* a dated span returned without its date flag after an undated span was
\* merged into it
C26_Witness ==
    /\ ReturnedByNlp /\ Len(result) < Len(initial)
    /\ \E i \in 1..Len(result) : ~ Extracted(i) /\ result[i].startIndex \in lost

\* the merge loop was left before its cap, by "Check if we're done" or by the
\* no-progress break
LoopEndedBeforeCap == nlp /\ pc \in {"format", "done"} /\ iteration < max_iterations

\* C27: when the merge loop ends before the 100-iteration cap, every segment
\* after the first has a date, so among the returned segments only the first
\* can have dateSource 'asana_timestamp'.
C27_UndatedOnlyAtFront ==
    LoopEndedBeforeCap =>
        /\ \A i \in 1..Len(segments) : ~ segments[i].has_date_or_time => i = 1
        /\ \A i \in 1..Len(result) : result[i].dateSource = "asana_timestamp" => i = 1

\* the loop left by the no-progress break after a pass that merged: an
\* undated first segment returned in front of a merged one
C27_Witness ==
    /\ ReturnedByNlp /\ iteration = 2
    /\ Len(result) >= 2 /\ Len(result) < Len(initial)
    /\ result[1].dateSource = "asana_timestamp"

\* C28: no pass makes the list of segments longer, a pass that merges makes
\* it shorter and only such a pass is followed by another iteration, so the
\* loop is left within as many iterations as there are initial spans; the
\* 100-iteration cap leaves an undated segment behind the first only for a
\* comment of more than 100 initial spans.
C28_PassesShrinkAndEndWithinN ==
    /\ [][ pc = "merge" =>
             /\ Len(segments') <= Len(segments)
             /\ segments' # segments => Len(segments') < Len(segments)
             /\ pc' = "merge" => Len(segments') < Len(segments) ]_vars
    /\ []( (nlp /\ pc \in {"merge", "format", "done"}) =>
             /\ iteration <= Len(initial)
             /\ pc = "merge" => iteration < Len(initial)
             /\ (pc # "merge" /\ \E i \in 2..Len(segments) : ~ segments[i].has_date_or_time)
                   => Len(initial) > max_iterations )

\* the longest loop for three initial spans: two passes that merge one span
\* each, and the iteration that finds a single segment
C28_Witness ==
    /\ ReturnedByNlp /\ Len(initial) = 3 /\ iteration = 3 /\ Len(result) = 1
    /\ Cardinality(lost) = 1

(***************************************************************************)
(* Properties of the tagged-comment registry and of the examples of the    *)
(* comment tagger                                                          *)
(***************************************************************************)
\* the operations of the comment tagger's page that its handler knows
TaggerOperations ==
    {"segment_comment", "load_project_comments", "save_tagged_comment", "add_new_tag",
     "get_training_stats"}

\* CommentTagger.is_comment_tagged in the tagger of request r
is_comment_tagged(r, story_gid) == story_gid \in Keys(req[r].mem[TAGGED])

\* request r is a request to the comment tagger that came after the answer s
LaterTaggerRequest(r, s) ==
    req[r].number > s.number /\ req[r].form.operation \in TaggerOperations

ExamplesAtConstruction(r) == TaggedSegments(req[r].loaded[TRAINING], req[r].loaded[TAGGED])

\* C30: the examples train_tag_suggester passes to the suggester when a
\* request constructs the tagger are as many as the entries of the training
\* log: every confirmed segment is counted once.
C30_OneExamplePerLogEntry ==
    \A r \in Threads :
        req[r].form.operation \in TaggerOperations =>
            Len(ExamplesAtConstruction(r)) = Len(req[r].loaded[TRAINING])

====
